---------------------------- MODULE HostRequests ----------------------------
(***************************************************************************)
(* What the control plane asks of a connected host besides Runs            *)
(* (server/src/modules/hosts/connectionRegistry.ts and the daemon's        *)
(* commands/run.ts): requests with a reply and a time limit, of which tool *)
(* operations exclude each other; interactive account sessions, which have *)
(* no time limit; and source executions, which belong to one connection    *)
(* and call back through it.                                               *)
(*                                                                         *)
(* A connection is lost on the host's side first.                          *)
(***************************************************************************)
EXTENDS Integers, Sequences, FiniteSets, SequencesExt

CONSTANTS Tools,     \* tool operations, all on one tool
          Sessions,  \* account sessions
          Sources,   \* source executions
          Wanted,    \* the sets of requests that are made together
          MaxCalls,  \* bound: requests of one source execution
          MaxLosses  \* bound: connections lost

Requests == Tools \union Sessions \union Sources

VARIABLES link,    \* the socket that works, 0 when there is none
          sink,    \* the socket the registry sends on, 0 when offline
          made,    \* sockets opened so far
          entry,   \* the registry's entry of each request
          via,     \* the socket it was sent on
          answer,  \* what its caller was told
          called,  \* per source: requests brokered, and whether one is now
          remote,  \* the request on the host
          requested,   \* requests a source made
          down, up \* frames between them

requestVars == <<link, sink, made, entry, via, answer, called, remote, requested, down, up>>
linkVars == <<link, sink, made>>
remoteVars == <<remote, requested>>

Nothing == "nothing"
online == sink # 0
Frame(kind, q, n) == [kind |-> kind, req |-> q, n |-> n]

Init ==
    /\ link = 1 /\ sink = 1 /\ made = 1
    /\ entry \in {[q \in Requests |-> IF q \in w THEN "new" ELSE "unwanted"] : w \in Wanted}
    /\ via = [q \in Requests |-> 0]
    /\ answer = [q \in Requests |-> Nothing]
    /\ called = [q \in Sources |-> [sequence |-> 0, busy |-> FALSE]]
    /\ remote = [q \in Requests |-> "none"]
    /\ requested = [q \in Sources |-> 0]
    /\ down = <<>> /\ up = <<>>

-----------------------------------------------------------------------------
InProgress == {q \in Tools : entry[q] = "open"}
Send(frames) == down' = IF online THEN down \o frames ELSE down

(* Several entries settled at once. *)
Settled(qs, what) ==
    /\ entry' = [q \in Requests |-> IF q \in qs THEN "done" ELSE entry[q]]
    /\ answer' = [q \in Requests |-> IF q \in qs THEN what ELSE answer[q]]
SettledWith(q, what, frames) ==
    Settled({q}, what) /\ Send(frames) /\ UNCHANGED <<via, called>>
CancelOf(q) == IF q \in Tools THEN <<>> ELSE <<Frame("cancel", q, 0)>>

(* requestToolAction, requestOrdinaryTool, openOrdinaryAccountSession and    *)
(* executeSource of an online host.                                          *)
Open(q) ==
    /\ entry[q] = "new" /\ online
    /\ IF q \in Tools /\ InProgress # {}
       THEN SettledWith(q, "refused", <<>>)
       ELSE /\ entry' = [entry EXCEPT ![q] = "open"]
            /\ via' = [via EXCEPT ![q] = sink]
            /\ Send(<<Frame("open", q, 0)>>)
            /\ UNCHANGED <<answer, called>>
    /\ UNCHANGED <<linkVars, remoteVars, up>>

(* The time limit; a source is then also cancelled on its host. *)
TimesOut(q) ==
    /\ entry[q] = "open" /\ q \notin Sessions
    /\ SettledWith(q, "timeout", CancelOf(q))
    /\ UNCHANGED <<linkVars, remoteVars, up>>

(* The caller closes its session or aborts its source. *)
Close(q) ==
    /\ entry[q] = "open" /\ q \notin Tools
    /\ SettledWith(q, "cancelled", CancelOf(q))
    /\ UNCHANGED <<linkVars, remoteVars, up>>

(* receiveToolResult, receiveOrdinaryAccountSessionEvent (exit) and          *)
(* receiveSourceResult; nobody waits for a late one.                         *)
receiveResult ==
    /\ up # <<>> /\ Head(up).kind = "result" /\ up' = Tail(up)
    /\ LET q == Head(up).req
       IN IF entry[q] # "open" THEN UNCHANGED <<entry, via, answer, called, down>>
          ELSE IF q \in Sources
          THEN SettledWith(q, IF called[q].busy THEN "failed" ELSE "result", CancelOf(q))
          ELSE SettledWith(q, "result", <<>>)
    /\ UNCHANGED <<linkVars, remoteVars>>

(* receiveSourceRequest: one at a time, in sequence. *)
receiveSourceRequest ==
    /\ up # <<>> /\ Head(up).kind = "request" /\ up' = Tail(up)
    /\ LET q == Head(up).req
           n == Head(up).n
       IN IF entry[q] # "open" THEN UNCHANGED <<entry, via, answer, called, down>>
          ELSE IF called[q].busy \/ n # called[q].sequence + 1
          THEN SettledWith(q, "failed", CancelOf(q))
          ELSE /\ called' = [called EXCEPT ![q] = [sequence |-> n, busy |-> TRUE]]
               /\ UNCHANGED <<entry, via, answer, down>>
    /\ UNCHANGED <<linkVars, remoteVars>>

(* The broker answers; a settled execution has aborted it. *)
BrokerAnswers(q) ==
    /\ called[q].busy /\ entry[q] = "open"
    /\ \/ /\ called' = [called EXCEPT ![q].busy = FALSE]
          /\ Send(<<Frame("response", q, called[q].sequence)>>)
          /\ UNCHANGED <<entry, via, answer>>
       \/ SettledWith(q, "failed", CancelOf(q))
    /\ UNCHANGED <<linkVars, remoteVars, up>>

-----------------------------------------------------------------------------
(* The host's socket closes: its sessions are told to end, its sources are   *)
(* aborted and cannot say so. Tool operations go on.                         *)
LinkLost ==
    /\ link # 0 /\ made <= MaxLosses
    /\ link' = 0 /\ up' = <<>>
    /\ remote' = [q \in Requests |->
                    IF q \in Sources /\ remote[q] # "none" THEN "over"
                    ELSE IF q \in Sessions /\ remote[q] = "working" THEN "stopping"
                    ELSE remote[q]]
    /\ UNCHANGED <<sink, made, entry, via, answer, called, requested, down>>

Reconnect ==
    /\ link = 0 /\ link' = made + 1 /\ made' = made + 1
    /\ UNCHANGED <<sink, entry, via, answer, called, remoteVars, down, up>>

(* registerConnection: sources belong to the connection that is replaced. *)
registerConnection_KeepsSources ==
    /\ link # 0 /\ sink # link
    /\ sink' = link /\ down' = <<>>
    /\ UNCHANGED <<link, made, entry, via, answer, called, remoteVars, up>>
registerConnection ==
    /\ link # 0 /\ sink # link
    /\ sink' = link /\ down' = <<>>
    /\ Settled({q \in Sources : entry[q] = "open"}, "disconnected")
    /\ UNCHANGED <<link, made, via, called, remoteVars, up>>

(* unregisterConnection of the live socket, and failPendingRequests. *)
unregisterConnection ==
    /\ online /\ sink # link
    /\ sink' = 0 /\ down' = <<>>
    /\ Settled({q \in Requests : entry[q] = "open"}, "disconnected")
    /\ UNCHANGED <<link, made, via, called, remoteVars, up>>

-----------------------------------------------------------------------------
(* The daemon. It sends on a socket whose hello was acknowledged; tool       *)
(* operations exclude each other on the host too.                            *)
HostStep == UNCHANGED <<linkVars, entry, via, answer, called>>
Reply(kind, q, n) ==
    up' = IF sink = link /\ link # 0 THEN Append(up, Frame(kind, q, n)) ELSE up
HostBusy == \E q \in Tools : remote[q] = "working"

HostReceives ==
    /\ down # <<>> /\ sink = link /\ down' = Tail(down)
    /\ LET f == Head(down)
       IN \/ /\ f.kind = "open"
             /\ IF f.req \in Tools /\ HostBusy
                THEN remote' = [remote EXCEPT ![f.req] = "over"] /\ Reply("result", f.req, 0)
                ELSE remote' = [remote EXCEPT ![f.req] = "working"] /\ UNCHANGED up
          \/ /\ f.kind = "cancel"
             /\ IF remote[f.req] \in {"working", "asking"}
                THEN remote' = [remote EXCEPT ![f.req] = "stopping"] ELSE UNCHANGED remote
             /\ UNCHANGED up
          \/ /\ f.kind = "response"
             /\ remote' = [remote EXCEPT ![f.req] =
                    IF @ = "asking" /\ f.n = requested[f.req] THEN "working"
                    ELSE IF @ = "working" THEN "stopping" ELSE @]
             /\ UNCHANGED up
    /\ UNCHANGED requested /\ HostStep

(* A source asks for a resource, and waits. *)
HostAsks(q) ==
    /\ remote[q] = "working" /\ requested[q] < MaxCalls
    /\ remote' = [remote EXCEPT ![q] = "asking"]
    /\ requested' = [requested EXCEPT ![q] = @ + 1]
    /\ Reply("request", q, requested[q] + 1)
    /\ UNCHANGED down /\ HostStep

(* It ends, or runs into its own limits while it waits. *)
HostEnds(q) ==
    /\ remote[q] \in {"working", "stopping", "asking"}
    /\ remote' = [remote EXCEPT ![q] = "over"]
    /\ Reply("result", q, 0)
    /\ UNCHANGED <<requested, down>> /\ HostStep

-----------------------------------------------------------------------------
Next ==
    \/ \E q \in Requests : Open(q) \/ TimesOut(q) \/ Close(q) \/ HostEnds(q)
    \/ \E q \in Sources : BrokerAnswers(q) \/ HostAsks(q)
    \/ receiveResult \/ receiveSourceRequest \/ HostReceives
    \/ LinkLost \/ Reconnect \/ registerConnection \/ unregisterConnection

Spec == Init /\ [][Next]_requestVars

-----------------------------------------------------------------------------
RequestsTypeOK ==
    /\ link \in 0 .. made /\ sink \in 0 .. made /\ made \in 1 .. MaxLosses + 1
    /\ entry \in [Requests -> {"unwanted", "new", "open", "done"}]
    /\ via \in [Requests -> 0 .. made]
    /\ answer \in [Requests -> {Nothing, "result", "timeout", "cancelled", "failed",
                                "refused", "disconnected"}]
    /\ \A q \in Requests : entry[q] = "done" <=> answer[q] # Nothing
    /\ called \in [Sources -> [sequence : 0 .. MaxCalls, busy : BOOLEAN]]
    /\ remote \in [Requests -> {"none", "working", "asking", "stopping", "over"}]
    /\ requested \in [Sources -> 0 .. MaxCalls]
    /\ \A i \in 1 .. Len(down) : down[i].kind \in {"open", "cancel", "response"}
    /\ \A i \in 1 .. Len(up) : up[i].kind \in {"result", "request"}

(* The two sides never lose step.                                            *)
(* What the control plane no longer waits for does not go on at the host: a  *)
(* session or source whose caller was answered has ended there, or its       *)
(* cancel is on its way (connectionRegistry.ts:787-792, 1181-1187; commands/ *)
(* run.ts:936-940).  A source execution is never carried into another        *)
(* connection, for its broker grant belongs to the one it was sent on        *)
(* (449-453), and its calls stay in step: the host is answered nothing it    *)
(* did not request, and no request is brokered twice (1198).                 *)
NothingGoesOnUnheard == \A q \in Sessions \union Sources :
    entry[q] = "done" /\ remote[q] \in {"working", "asking"} =>
        \E i \in 1 .. Len(down) : down[i].kind = "cancel" /\ down[i].req = q
SourceStaysOnConnection == \A q \in Sources :
    entry[q] = "open" /\ online => via[q] = sink
CallsInStep == \A q \in Sources :
    entry[q] = "open" =>
        /\ called[q].sequence <= requested[q]
        /\ remote[q] = "working" /\ sink = link => called[q].sequence = requested[q] /\ ~called[q].busy
(* One operation at a time changes a tool on the host, also when the control *)
(* plane gave an earlier one up, or lost its connection, and asks again      *)
(* (execution.ts:533-536, ordinaryTools.ts:376).                             *)
OneToolOperation == Cardinality({q \in Tools : remote[q] = "working"}) <= 1

(* The two sides of the connection agree.                                    *)
SidesInStep ==
    RequestsTypeOK /\ NothingGoesOnUnheard /\ SourceStaysOnConnection /\ CallsInStep /\ OneToolOperation

(* "A disconnect ends it with `host_disconnected`" (connectionRegistry.ts:   *)
(* 772): a session does not outlive the connection it was opened on.         *)
SessionEndsWithConnection == \A q \in Sessions :
    entry[q] = "open" /\ online => via[q] = sink
=============================================================================
