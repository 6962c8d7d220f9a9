--------------------------- MODULE MCHostRegistry ---------------------------
(* Attempts a1 and a2 of one Run and b1 and c1 of two others on one host;  *)
(* and, in behaviours of their own, the other requests made of a host.     *)
EXTENDS HostRegistry

MCLaunches == {"a1", "a2", "b1", "c1"}
MCRuns == {"a", "b", "c"}
MCRunOf == [l \in MCLaunches |-> CASE l \in {"a1", "a2"} -> "a"
                                   [] l = "b1" -> "b" [] OTHER -> "c"]

Bound(ls, cap, losses, again, typists, lines, asked) ==
    [launches |-> ls, cap |-> cap, losses |-> losses, restarts |-> again,
     interactive |-> typists, stdin |-> lines, stops |-> asked]

(* A retry and another Run for one slot, over a lost connection.           *)
Retried == Bound({"a1", "a2", "b1"}, 1, 1, 0, {}, 0, 0)
(* A retry that is stopped, over a lost connection, and over a restart.    *)
Stopped == {Bound({"a1", "a2"}, 1, 1, 0, {}, 0, 1), Bound({"a1", "a2"}, 1, 0, 1, {}, 0, 1)}
(* The Run behind the one that is stopped.                                 *)
Behind == Bound({"a1", "a2", "b1"}, 1, 0, 0, {}, 0, 1)
(* Two slots, for three Runs over a lost connection and for four attempts. *)
Slots == {Bound({"a1", "b1", "c1"}, 2, 1, 0, {}, 0, 0), Bound(MCLaunches, 2, 0, 0, {}, 0, 0)}
(* An interactive Run and its retry over two lost connections.             *)
Typed == Bound({"a1", "a2"}, 1, 2, 0, {"a1", "a2"}, 1, 0)

(* No launch: the requests of HostRequests are made instead.               *)
Requested == Bound({}, 1, 0, 0, {}, 0, 0)

MCBounds == {Retried, Behind, Typed, Requested} \union Stopped \union Slots

(* Frames arrive, timers fire, the daemon reconnects and processes end, in *)
(* the behaviours whose end is asked for.  A stop, a time limit or a new   *)
(* dispatch need not come.                                                 *)
Live == limits = Retried
MCFairness ==
    /\ WF_vars(Live /\ receiveComplete) /\ WF_vars(Live /\ HostReceives)
    /\ WF_vars(Live /\ Reconnect) /\ WF_vars(Live /\ registerConnection)
    /\ WF_vars(Live /\ unregisterConnection)
    /\ \A l \in Retried.launches : WF_vars(Live /\ HostEnds(l))
    /\ \A r \in {"a", "b"} : WF_vars(Live /\ GraceEnds(r))

VARIABLES rLink, rSink, rMade, entry, via, answer, called, remote, requested, rDown, rUp
rVars == <<rLink, rSink, rMade, entry, via, answer, called, remote, requested, rDown, rUp>>

(* Two tool operations, a session and two sources in several company, over *)
(* one lost connection.                                                    *)
R == INSTANCE HostRequests WITH
        Tools <- {"install", "remove"}, Sessions <- {"login"}, Sources <- {"fetch", "crawl"},
        Wanted <- {{}, {"install", "remove", "login"}, {"fetch", "login"}, {"fetch", "crawl"},
                   {"install", "fetch"}},
        MaxCalls <- 2, MaxLosses <- 1,
        link <- rLink, sink <- rSink, made <- rMade, down <- rDown, up <- rUp

MCInit == Init /\ R!Init /\ (limits = Requested <=> \E q \in R!Requests : entry[q] = "new")
MCNext == \/ limits # Requested /\ Next /\ UNCHANGED rVars
          \/ limits = Requested /\ R!Next /\ UNCHANGED vars

MCSpec == MCInit /\ [][MCNext]_<<vars, rVars>> /\ MCFairness

(* Every dispatch is settled, unless a launch or a report was lost with a  *)
(* connection, and its slot stays taken (connectionRegistry.ts:486-620).   *)
EveryDispatchSettles == \A l \in Retried.launches :
    Live /\ outcome[l] = "waited" ~> outcome[l] # "waited" \/ lost # {}

(* The two sides of the connection agree on every other request            *)
(* (connectionRegistry.ts:430-483, 696-1330).                              *)
SidesInStep == R!SidesInStep
=============================================================================
