---------------------------- MODULE HostRegistry ----------------------------
(***************************************************************************)
(* The control plane's registry of one connected host                      *)
(* (server/src/modules/hosts/connectionRegistry.ts): the launch slots of a *)
(* capped host, the dispatches it waits for, the reconnect grace, the      *)
(* stops it owes an absent host, and the stdin of interactive runs; with   *)
(* the socket between it and the daemon, which can be lost at any moment.  *)
(*                                                                         *)
(* The promise of a dispatch and the release of its slot are one step: the *)
(* release runs in the microtask that follows.                             *)
(***************************************************************************)
EXTENDS Integers, Sequences, FiniteSets, SequencesExt

CONSTANTS Launches,    \* launch attempts, each with its own nonce
          Runs,        \* Runs
          RunOf,       \* the Run a launch is an attempt of
          Bounds       \* the bounds TLC considers: records [launches, cap,
                       \* losses, restarts, interactive, stdin, stops]

(* cap is maxConcurrentRuns, losses, restarts and stops count lost           *)
(* connections, restarts of the control plane and stops asked for, and       *)
(* interactive launches are driven over stdin, at most stdin frames each.    *)
ASSUME RegistryAssumption ==
    /\ RunOf \in [Launches -> Runs]
    /\ Launches \intersect Runs = {} /\ "none" \notin Launches \union Runs
    /\ \A b \in Bounds : /\ b.launches \subseteq Launches /\ b.interactive \subseteq Launches
                         /\ b.cap \in Nat \ {0}
                         /\ b.losses \in Nat /\ b.restarts \in Nat
                         /\ b.stdin \in Nat /\ b.stops \in Nat

VARIABLES link,      \* the socket that works: its number, 0 when there is none
          sink,      \* the socket the registry sends on, 0 when offline
          made,      \* sockets opened so far
          bound,     \* did the daemon's frame sink get its hello_ack?
          pending,   \* per Run: the attempt waited for and its undelivered stdin
          grace,     \* Runs whose reconnect grace is running
          waiters,   \* attempts waiting for a slot
          outcome,   \* what each dispatch was settled with
          owed,      \* undeliveredStops
          stopping,  \* stoppingAttempts: attempts a stop waits to hear of
          confirmed, \* attempts a stop was told have ended
          down,      \* frames on the way to the daemon
          up,        \* frames on the way back
          has,       \* attempts on the daemon
          newest,    \* activeRuns: the newest attempt of each Run there
          started,   \* attempts known to have started (`launched`)
          ending,    \* those of them a stop has reached
          lost,      \* attempts whose `launch` or `complete` was lost on the way
          typed,     \* stdin frames written for each launch
          read,      \* stdin frames each launch's process got
          restarts, stops,
          limits     \* the bounds of this behaviour

vars == <<link, sink, made, bound, pending, grace, waiters, outcome, owed, stopping,
          confirmed, down, up, has, newest, started, ending, lost, typed, read, restarts, stops, limits>>
hostVars == <<up, has, newest, started, ending, lost, read>>
linkVars == <<link, sink, made, bound, restarts, limits>>
counters == <<typed, stops>>

None == "none"
Idle == [launch |-> None, stdin |-> <<>>]
Settled == {"complete", "disconnected", "superseded", "abandoned", "offline", "limit"}
online == sink # 0
inFlight(p) == {r \in Runs : p[r] # Idle}

Init ==
    /\ link = 1 /\ sink = 1 /\ made = 1 /\ bound = TRUE
    /\ pending = [r \in Runs |-> Idle] /\ grace = {} /\ waiters = <<>>
    /\ outcome = [l \in Launches |-> "new"]
    /\ owed = {} /\ stopping = {} /\ confirmed = {}
    /\ down = <<>> /\ up = <<>> /\ has = {} /\ ending = {} /\ lost = {}
    /\ newest = [r \in Runs |-> None] /\ started = {}
    /\ typed = [l \in Launches |-> 0] /\ read = [l \in Launches |-> <<>>]
    /\ restarts = 0 /\ stops = 0 /\ limits \in Bounds

-----------------------------------------------------------------------------
(* Frames are sent on the registered socket, which may already be gone: they *)
(* then stay in `down` until its end is known, and are lost.                 *)
Sent(frames, more) == IF online THEN frames \o more ELSE frames

Frame(kind, l, n) == [kind |-> kind, launch |-> l, n |-> n]
StopFrame(l) == Frame("stop", l, 0)

(* The registry as one step sees it. *)
Now == [pending |-> pending, waiters |-> waiters, outcome |-> outcome, down |-> down]

(* sendLaunch of some attempts in turn, to an online host.  The dispatch of *)
(* an earlier attempt of the Run is settled here.                           *)
Started(s, ls) ==
    LET of(r) == {i \in DOMAIN ls : RunOf[ls[i]] = r}
        last(r) == IF of(r) = {} THEN s.pending[r].launch ELSE ls[Max(of(r))]
    IN [s EXCEPT !.pending = [r \in Runs |-> IF of(r) = {} THEN @[r]
                                             ELSE [launch |-> last(r), stdin |-> <<>>]],
                 !.outcome = [l \in Launches |->
                                IF last(RunOf[l]) = l THEN IF l \in ToSet(ls) THEN "waited" ELSE @[l]
                                ELSE IF l \in ToSet(ls) \/ l = s.pending[RunOf[l]].launch
                                THEN "superseded" ELSE @[l]],
                 !.down = Sent(@, [i \in DOMAIN ls |-> Frame("launch", ls[i], 0)])]

(* releaseSlot starts the first waiter.  One that takes the slot of its      *)
(* Run's earlier attempt releases that slot in turn, to the next waiter.     *)
Admitted(s) ==
    LET newcomers == {i \in DOMAIN s.waiters : s.pending[RunOf[s.waiters[i]]] = Idle}
    IN IF newcomers = {} THEN Len(s.waiters) ELSE Min(newcomers)

(* Offline, a waiter is refused and releases the slot to the next, so all of *)
(* them are.                                                                 *)
Filled(s) ==
    IF online
    THEN Started([s EXCEPT !.waiters = SubSeq(@, Admitted(s) + 1, Len(@))],
                 SubSeq(s.waiters, 1, Admitted(s)))
    ELSE [s EXCEPT !.waiters = <<>>,
                   !.outcome = [l \in Launches |->
                                  IF l \in ToSet(s.waiters) THEN "offline" ELSE @[l]]]

Becomes(s) == /\ pending' = s.pending /\ waiters' = s.waiters
              /\ outcome' = s.outcome /\ down' = s.down

(* A dispatch ends and releases its slot. *)
Ended_KeepsWaiters(s, l, how) ==
    [s EXCEPT !.pending[RunOf[l]] = Idle, !.outcome[l] = how]
Ended(s, l, how) ==
    Filled([s EXCEPT !.pending[RunOf[l]] = Idle, !.outcome[l] = how])

-----------------------------------------------------------------------------
(* runCommand looks for the host, then dispatchLaunch in the same turn.  An  *)
(* earlier attempt of the Run releases its slot.                             *)
Launched(l) == LET s == Started(Now, <<l>>)
               IN IF pending[RunOf[l]] = Idle THEN s ELSE Filled(s)
Dispatch_Uncounted(l) ==
    /\ l \in limits.launches /\ outcome[l] = "new" /\ online
    /\ Becomes(Launched(l))
    /\ UNCHANGED <<linkVars, grace, owed, stopping, confirmed, hostVars, counters>>
Dispatch(l) ==
    /\ l \in limits.launches /\ outcome[l] = "new" /\ online
    /\ Becomes(IF Cardinality(inFlight(pending)) < limits.cap THEN Launched(l)
               ELSE [Now EXCEPT !.waiters = Append(@, l), !.outcome[l] = "waited"])
    /\ UNCHANGED <<linkVars, grace, owed, stopping, confirmed, hostVars, counters>>

(* sendTerminate: the first waiter of the Run is taken out of the queue;     *)
(* otherwise the attempt waited for is stopped, or owed its stop.            *)
WaitingOf(r) == {i \in DOMAIN waiters : RunOf[waiters[i]] = r}
Registered(r) == pending[r] # Idle \/ WaitingOf(r) # {}
Target(r) == IF pending[r] # Idle THEN pending[r].launch ELSE r
Terminated(r) ==
    IF WaitingOf(r) # {}
    THEN LET i == Min(WaitingOf(r))
         IN [Now EXCEPT !.waiters = RemoveAt(@, i), !.outcome[waiters[i]] = "abandoned"]
    ELSE [Now EXCEPT !.down = Sent(@, <<StopFrame(Target(r))>>)]
OwedAfter(r) ==
    IF WaitingOf(r) = {} /\ ~online /\ pending[r] # Idle THEN owed \union {pending[r].launch} ELSE owed

sendTerminate(r) ==
    /\ stops < limits.stops /\ stops' = stops + 1
    /\ Becomes(Terminated(r)) /\ owed' = OwedAfter(r)
    /\ UNCHANGED <<linkVars, grace, stopping, confirmed, hostVars, typed>>

(* RunExecutionControl.stop of the Run's newest attempt: sendTerminate when  *)
(* a dispatch is registered, then stopAttempt by its nonce, which works      *)
(* without one. An earlier attempt does not wait in the queue before it.     *)
Stop(l) ==
    /\ stops < limits.stops /\ stops' = stops + 1
    /\ outcome[l] # "new" /\ online
    /\ l \in ToSet(waiters) => l = waiters[Min(WaitingOf(RunOf[l]))]
    /\ LET s == IF Registered(RunOf[l]) THEN Terminated(RunOf[l]) ELSE Now
       IN Becomes([s EXCEPT !.down = Sent(@, <<StopFrame(l)>>)])
    /\ stopping' = stopping \union {l}
    /\ UNCHANGED <<linkVars, grace, owed, confirmed, hostVars, typed>>
StopTimesOut(l) ==
    /\ l \in stopping /\ stopping' = stopping \ {l}
    /\ UNCHANGED <<linkVars, pending, waiters, outcome, down, grace, owed, confirmed, hostVars, counters>>

(* The time limit passed and the stop was not confirmed: it is repeated, and *)
(* the dispatch settled.                                                     *)
Abandon(l) ==
    /\ pending[RunOf[l]].launch = l
    /\ Becomes(Ended(Terminated(RunOf[l]), l, "limit"))
    /\ owed' = OwedAfter(RunOf[l])
    /\ grace' = grace \ {RunOf[l]}
    /\ UNCHANGED <<linkVars, stopping, confirmed, hostVars, counters>>

(* receiveComplete: whoever stops that attempt hears of it; the dispatch is  *)
(* settled if it is that attempt's.                                          *)
receiveComplete_AnyAttempt ==
    /\ up # <<>> /\ Head(up).kind = "complete" /\ up' = Tail(up)
    /\ LET l == Head(up).launch
           r == RunOf[l]
       IN /\ confirmed' = confirmed \union ({l} \intersect stopping)
          /\ stopping' = stopping \ {l}
          /\ IF pending[r] # Idle
             THEN Becomes(Ended(Now, pending[r].launch, "complete")) /\ grace' = grace \ {r}
             ELSE UNCHANGED <<pending, waiters, outcome, down, grace>>
    /\ UNCHANGED <<linkVars, owed, has, newest, started, ending, lost, read, counters>>
receiveComplete ==
    /\ up # <<>> /\ Head(up).kind = "complete" /\ up' = Tail(up)
    /\ LET l == Head(up).launch
           r == RunOf[l]
       IN /\ confirmed' = confirmed \union ({l} \intersect stopping)
          /\ stopping' = stopping \ {l}
          /\ IF pending[r].launch = l
             THEN Becomes(Ended(Now, l, "complete")) /\ grace' = grace \ {r}
             ELSE UNCHANGED <<pending, waiters, outcome, down, grace>>
    /\ UNCHANGED <<linkVars, owed, has, newest, started, ending, lost, read, counters>>

(* receiveLaunched: the controller of the current attempt may write. *)
receiveLaunched ==
    /\ up # <<>> /\ Head(up).kind = "launched" /\ up' = Tail(up)
    /\ LET l == Head(up).launch
       IN started' = IF pending[RunOf[l]].launch = l THEN started \union {l} ELSE started
    /\ UNCHANGED <<linkVars, pending, waiters, outcome, down, grace, owed, stopping, confirmed,
                   has, newest, ending, lost, read, counters>>

(* sendStdin of the attempt waited for: queued with it while offline. *)
sendStdin(l) ==
    /\ pending[RunOf[l]].launch = l /\ l \in started /\ typed[l] < limits.stdin
    /\ typed' = [typed EXCEPT ![l] = @ + 1]
    /\ IF online
       THEN down' = Sent(down, <<Frame("stdin", l, typed'[l])>>) /\ UNCHANGED pending
       ELSE pending' = [pending EXCEPT ![RunOf[l]].stdin = Append(@, typed'[l])] /\ UNCHANGED down
    /\ UNCHANGED <<linkVars, waiters, outcome, grace, owed, stopping, confirmed, hostVars, stops>>

-----------------------------------------------------------------------------
Of(frames, kind) == {frames[i].launch : i \in {j \in 1 .. Len(frames) : frames[j].kind = kind}}

(* The socket breaks: what is on it is lost, and neither side knows yet. *)
LinkLost ==
    /\ link # 0 /\ made - restarts <= limits.losses
    /\ link' = 0 /\ bound' = FALSE
    /\ up' = <<>> /\ lost' = lost \union Of(up, "complete")
    /\ UNCHANGED <<sink, made, restarts, limits, pending, grace, waiters, outcome, owed, stopping,
                   confirmed, down, has, newest, started, ending, read, counters>>

(* The daemon opens a new socket and says hello. *)
Reconnect ==
    /\ link = 0 /\ link' = made + 1 /\ made' = made + 1
    /\ UNCHANGED <<sink, bound, restarts, limits, pending, grace, waiters, outcome, owed, stopping,
                   confirmed, down, hostVars, counters>>

(* registerConnection, and the hello_ack: the graces end, queued stdin and   *)
(* owed stops are sent, each Run's stdin in its order.                       *)
Queued == UNION {{r} \X DOMAIN pending[r].stdin : r \in Runs}
Orders == {o \in SetToSeqs(Queued) : \A m, n \in DOMAIN o :
              m < n /\ o[m][1] = o[n][1] => o[m][2] < o[n][2]}
StdinOf(o) == [m \in DOMAIN o |-> LET p == pending[o[m][1]]
                                  IN Frame("stdin", p.launch, p.stdin[o[m][2]])]
Replayed(o, stopped) == StdinOf(o) \o [m \in DOMAIN stopped |-> StopFrame(stopped[m])]
registerConnection ==
    /\ link # 0 /\ sink # link
    /\ sink' = link
    /\ \E o \in Orders, stopped \in SetToSeqs(owed) :
          down' = Replayed(o, stopped) \o <<Frame("ack", None, 0)>>
    /\ lost' = lost \union Of(down, "launch")
    /\ pending' = [r \in Runs |-> [pending[r] EXCEPT !.stdin = <<>>]]
    /\ grace' = {} /\ owed' = {}
    /\ UNCHANGED <<link, made, bound, restarts, limits, waiters, outcome, stopping, confirmed,
                   up, has, newest, started, ending, read, counters>>

(* unregisterConnection of the live socket: a grace starts for each dispatch. *)
(* A superseded socket's close changes nothing.                               *)
unregisterConnection ==
    /\ online /\ sink # link
    /\ sink' = 0
    /\ down' = <<>> /\ lost' = lost \union Of(down, "launch")
    /\ grace' = inFlight(pending)
    /\ UNCHANGED <<link, made, bound, restarts, limits, pending, waiters, outcome, owed, stopping,
                   confirmed, up, has, newest, started, ending, read, counters>>

(* The grace ends: the attempt is given up, and its stop is owed. *)
GraceEnds(r) ==
    /\ r \in grace /\ grace' = grace \ {r}
    /\ owed' = owed \union {pending[r].launch}
    /\ Becomes(Ended(Now, pending[r].launch, "disconnected"))
    /\ UNCHANGED <<linkVars, stopping, confirmed, hostVars, counters>>

(* The control plane restarts: the registry was in its memory. *)
ServerRestarts ==
    /\ restarts < limits.restarts /\ restarts' = restarts + 1
    /\ link # 0 /\ link' = 0 /\ bound' = FALSE /\ sink' = 0
    /\ down' = <<>> /\ up' = <<>>
    /\ lost' = lost \union Of(down, "launch") \union Of(up, "complete")
    /\ pending' = [r \in Runs |-> Idle] /\ grace' = {} /\ waiters' = <<>>
    /\ outcome' = [l \in Launches |-> IF outcome[l] = "waited" THEN "forgotten" ELSE outcome[l]]
    /\ owed' = {} /\ stopping' = {}
    /\ UNCHANGED <<made, limits, confirmed, has, newest, started, ending, read, counters>>

-----------------------------------------------------------------------------
(* The daemon. A frame it cannot send is dropped (ReconnectableFrameSink).   *)
Answer(kind, l) ==
    IF bound /\ link # 0
    THEN up' = Append(up, [kind |-> kind, launch |-> l]) /\ UNCHANGED lost
    ELSE /\ lost' = IF kind = "complete" THEN lost \union {l} ELSE lost
         /\ UNCHANGED up
HostStep == UNCHANGED <<link, sink, made, restarts, limits, pending, grace, waiters, outcome, owed,
                        stopping, confirmed, started, counters>>

(* handleTerminate: the attempts it names, or all of the Run's; an exact     *)
(* attempt that is not there is answered.                                    *)
Named(f) == IF f.launch \in Launches THEN {f.launch} ELSE {l \in Launches : RunOf[l] = f.launch}

(* A launch, a stop, stdin for the Run's newest process, the hello_ack.      *)
(* Attempts of a Run start in the order they were sent.                      *)
HostReceives ==
    /\ down # <<>> /\ sink = link /\ down' = Tail(down)
    /\ LET f == Head(down)
           r == RunOf[f.launch]
       IN \/ /\ f.kind = "launch"
             /\ has' = has \union {f.launch}
             /\ newest' = [newest EXCEPT ![r] = f.launch]
             /\ IF f.launch \in limits.interactive THEN Answer("launched", f.launch)
                                            ELSE UNCHANGED <<up, lost>>
             /\ UNCHANGED <<bound, ending, read>>
          \/ /\ f.kind = "stop"
             /\ ending' = ending \union (Named(f) \intersect has)
             /\ IF f.launch \in Launches \ has THEN Answer("complete", f.launch)
                                               ELSE UNCHANGED <<up, lost>>
             /\ UNCHANGED <<bound, has, newest, read>>
          \/ /\ f.kind = "stdin"
             /\ read' = [l \in Launches |-> IF l = newest[r] THEN Append(read[l], f) ELSE read[l]]
             /\ UNCHANGED <<bound, has, newest, up, ending, lost>>
          \/ /\ f.kind = "ack"
             /\ bound' = TRUE
             /\ UNCHANGED <<has, newest, up, ending, lost, read>>
    /\ HostStep

(* An attempt ends on the daemon, by itself or stopped, and is reported. *)
HostEnds(l) ==
    /\ l \in has
    /\ has' = has \ {l} /\ ending' = ending \ {l}
    /\ newest' = [newest EXCEPT ![RunOf[l]] = IF @ = l THEN None ELSE @]
    /\ Answer("complete", l)
    /\ UNCHANGED <<bound, down, read>> /\ HostStep

-----------------------------------------------------------------------------
Next ==
    \/ \E l \in Launches : \/ Dispatch(l) \/ Stop(l) \/ StopTimesOut(l) \/ Abandon(l)
                           \/ sendStdin(l) \/ HostEnds(l)
    \/ \E r \in Runs : sendTerminate(r) \/ GraceEnds(r)
    \/ receiveComplete \/ receiveLaunched \/ registerConnection \/ unregisterConnection
    \/ LinkLost \/ Reconnect \/ ServerRestarts \/ HostReceives

Spec == Init /\ [][Next]_vars

-----------------------------------------------------------------------------
FrameSet == [kind : {"launch", "stop", "stdin", "ack"},
             launch : Launches \union Runs \union {None}, n : 0 .. limits.stdin]
TypeOK ==
    /\ link \in 0 .. made /\ sink \in 0 .. made /\ made \in Nat
    /\ bound \in BOOLEAN
    /\ pending \in [Runs -> [launch : Launches \union {None}, stdin : Seq(1 .. limits.stdin)]]
    /\ grace \subseteq inFlight(pending)
    /\ waiters \in Seq(Launches)
    /\ outcome \in [Launches -> {"new", "waited", "forgotten"} \union Settled]
    /\ owed \subseteq Launches /\ stopping \subseteq Launches /\ confirmed \subseteq Launches
    /\ down \in Seq(FrameSet) /\ up \in Seq([kind : {"complete", "launched"}, launch : Launches])
    /\ newest \in [Runs -> has \union {None}] /\ started \subseteq Launches
    /\ has \subseteq Launches /\ ending \subseteq has /\ lost \subseteq Launches
    /\ typed \in [Launches -> 0 .. limits.stdin]
    /\ read \in [Launches -> Seq(FrameSet)]
    /\ restarts \in 0 .. limits.restarts /\ stops \in 0 .. limits.stops

(* The slots are what the registry thinks.  It never waits for more Runs     *)
(* than the host may execute, also when a retry takes the place of its Run's *)
(* earlier attempt (connectionRegistry.ts:587-608).  No slot is idle while a *)
(* launch waits for one, and each unsettled dispatch is either waited for or *)
(* in the queue, once ("a slot whose release never fires stays idle while    *)
(* other Runs wait for it", 588-590).                                        *)
CapHolds == Cardinality(inFlight(pending)) <= limits.cap
Waiting(l) == IF pending[RunOf[l]].launch = l
              THEN l \notin ToSet(waiters) ELSE l \in ToSet(waiters)
NoIdleSlot ==
    /\ waiters # <<>> => Cardinality(inFlight(pending)) = limits.cap
    /\ \A l \in Launches : outcome[l] = "waited" <=> pending[RunOf[l]].launch = l \/ l \in ToSet(waiters)
    /\ \A l \in Launches : outcome[l] = "waited" => Waiting(l)
    /\ IsInjective(waiters)
SlotsAreExact == TypeOK /\ CapHolds /\ NoIdleSlot

(* What reaches the registry or the process is taken for what it is.  A stop *)
(* reported as confirmed means that attempt is not on the host, and no frame *)
(* or waiter would still start it (connectionRegistry.ts:639-656,            *)
(* executionControl.ts:23-51); a dispatch is completed only by its own       *)
(* attempt's end, never by the late report of an earlier attempt of the Run  *)
(* (1306-1316); what is typed reaches the attempt it was typed for, in order *)
(* and no line twice, also across a reconnection (464-472).                  *)
ConfirmedIsGone == \A l \in confirmed :
    /\ l \notin has \union ToSet(waiters)
    /\ \A i \in 1 .. Len(down) : ~(down[i].kind = "launch" /\ down[i].launch = l)
CompleteIsOwn == \A l \in has : outcome[l] # "complete"
StdinInOrder == \A l \in Launches : \A i \in 1 .. Len(read[l]) :
    /\ read[l][i].launch = l
    /\ i > 1 => read[l][i - 1].n < read[l][i].n
FramesAreTheirs == ConfirmedIsGone /\ CompleteIsOwn /\ StdinInOrder

(* "Given up here; whatever the daemon still holds of it must not run on"    *)
(* (connectionRegistry.ts:494): the stop of an attempt given up is owed, on  *)
(* its way or has arrived.  A second loss takes a stop that is on its way.   *)
GivenUpIsStopped == limits.losses + limits.restarts <= 1 =>
    \A l \in has : outcome[l] = "disconnected" =>
        \/ l \in owed \union ending
        \/ \E i \in 1 .. Len(down) : down[i].kind = "stop" /\ l \in Named(down[i])

(* What the registry says of an attempt is so on the host.                   *)
SaidIsSo == FramesAreTheirs /\ GivenUpIsStopped

(* "Every path that resolves this promise is a Run that has stopped          *)
(* executing" (connectionRegistry.ts:605).                                   *)
SettledIsStopped == \A l \in has : outcome[l] \notin Settled
=============================================================================
