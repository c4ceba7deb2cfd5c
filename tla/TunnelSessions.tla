--------------------------- MODULE TunnelSessions ----------------------------
(***************************************************************************)
(* The tunnel between a cluster and a Docker host: the server's sessions   *)
(* and connections (internal/tunnel/server.go) and the clients that keep   *)
(* dialling it (internal/tunnel/client.go).                                *)
(*                                                                         *)
(* A session is one multiplexed WebSocket connection (yamux).  The server  *)
(* registers it in a list, hands every TCP connection to a target and a    *)
(* session in turn, and takes it off the list when it polls that it is     *)
(* closed.  A link that breaks is noticed by either side in its own time,  *)
(* when a keepalive fails; until then the server goes on using it.         *)
(***************************************************************************)
EXTENDS Integers, Sequences, FiniteSets, SequencesExt

CONSTANTS Clients,      \* tunnel clients
          Lists,        \* the target lists the server may be given
          MaxDials,     \* bound: sessions
          MaxConns,     \* bound: TCP connections
          MaxCuts,      \* bound: broken links
          MaxRestarts   \* bound: restarts of the server

ASSUME ListsAssumption == \A l \in Lists : l \in Seq(Range(l))
ASSUME BoundsAssumption ==
    /\ MaxDials \in Nat /\ MaxConns \in Nat /\ MaxCuts \in Nat /\ MaxRestarts \in Nat

VARIABLES
    client,    \* per client, the session it serves; 0 while it waits to dial
    handler,   \* per session, the state of its handleWS
    link,      \* per session, whether the network still carries it
    closed,    \* the sessions the server knows to be closed (IsClosed)
    sessions,  \* Server.sessions
    targets,   \* Server.targets
    rrIndex,   \* Server.rrIndex
    conns,     \* per TCP connection, the state of its handleTCP
    hits,      \* per position of targets, connections sent there since the list changed
    restarts   \* restarts of the server so far

vars == <<client, handler, link, closed, sessions, targets, rrIndex, conns, hits, restarts>>

Ids   == 1..MaxDials
Conns == 1..MaxConns
Fresh == {s \in Ids : handler[s] = "unborn"}
NewConn == [pc |-> "new", sess |-> 0]
Zeros(l) == [i \in 1..Len(l) |-> 0]

TypeOK ==
    /\ client \in [Clients -> 0..MaxDials]
    /\ handler \in [Ids -> {"unborn", "upgraded", "polling", "returned"}]
    /\ link \in [Ids -> {"up", "cut"}] /\ closed \in SUBSET Ids
    /\ sessions \in Seq(Ids) /\ targets \in Lists \cup {<<>>}
    /\ rrIndex \in 0..MaxConns
    /\ conns \in [Conns -> [pc : {"new", "picked", "piping", "closed"}, sess : 0..MaxDials]]
    /\ hits \in [1..Len(targets) -> 0..MaxConns] /\ restarts \in 0..MaxRestarts

Init ==
    /\ client = [c \in Clients |-> 0]
    /\ handler = [s \in Ids |-> "unborn"] /\ link = [s \in Ids |-> "up"]
    /\ closed = {} /\ sessions = <<>>
    /\ targets = <<>> /\ rrIndex = 0 /\ hits = <<>>
    /\ conns = [k \in Conns |-> NewConn] /\ restarts = 0

-----------------------------------------------------------------------------
(* Sessions. *)

\* connectAndServe: the client dials, with the token in the URL; the server's
\* handleWS upgrades the connection and both start a session.
Dial(c) ==
    /\ client[c] = 0
    /\ \E s \in Fresh :
          /\ \A t \in Fresh : s <= t
          /\ client' = [client EXCEPT ![c] = s]
          /\ handler' = [handler EXCEPT ![s] = "upgraded"]
    /\ UNCHANGED <<link, closed, sessions, targets, rrIndex, conns, hits, restarts>>

\* handleWS registers the session.
Register(s) ==
    /\ handler[s] = "upgraded" /\ handler' = [handler EXCEPT ![s] = "polling"]
    /\ sessions' = Append(sessions, s)
    /\ UNCHANGED <<client, link, closed, targets, rrIndex, conns, hits, restarts>>

\* Mutant: the last session is taken off the list, not the closed one.
ReapLast(s) ==
    /\ handler[s] = "polling" /\ s \in closed
    /\ handler' = [handler EXCEPT ![s] = "returned"]
    /\ sessions' = Front(sessions)
    /\ UNCHANGED <<client, link, closed, targets, rrIndex, conns, hits, restarts>>

\* handleWS polls that its session is closed and takes it off the list.
Reap(s) ==
    /\ handler[s] = "polling" /\ s \in closed
    /\ handler' = [handler EXCEPT ![s] = "returned"]
    /\ sessions' = RemoveAt(sessions, CHOOSE i \in DOMAIN sessions : sessions[i] = s)
    /\ UNCHANGED <<client, link, closed, targets, rrIndex, conns, hits, restarts>>

\* The link of a session breaks.
Cut(s) ==
    /\ handler[s] \in {"upgraded", "polling"} /\ link[s] = "up"
    /\ Cardinality({t \in Ids : link[t] = "cut"}) < MaxCuts
    /\ link' = [link EXCEPT ![s] = "cut"]
    /\ UNCHANGED <<client, handler, closed, sessions, targets, rrIndex, conns, hits, restarts>>

\* A keepalive of the server fails, and it closes the session.
ServerNotices(s) ==
    /\ link[s] = "cut" /\ s \notin closed /\ closed' = closed \cup {s}
    /\ UNCHANGED <<client, handler, link, sessions, targets, rrIndex, conns, hits, restarts>>

\* Mutant: the client gives up instead of retrying.
GiveUp(c) == UNCHANGED client

\* Start waits and dials again.
Retry(c) == client' = [client EXCEPT ![c] = 0]

\* The client's Accept fails, and connectAndServe returns.
ClientNotices(c) ==
    /\ client[c] # 0 /\ link[client[c]] = "cut" /\ Retry(c)
    /\ UNCHANGED <<handler, link, closed, sessions, targets, rrIndex, conns, hits, restarts>>

-----------------------------------------------------------------------------
(* Connections. *)

\* A list arrives from the file or from a push (module TunnelTargets).
SetTargets(l) ==
    /\ l # targets /\ targets' = l /\ hits' = Zeros(l)
    /\ UNCHANGED <<client, handler, link, closed, sessions, rrIndex, conns, restarts>>

\* Mutant: the target goes with the session.
SessionTurn(l) == rrIndex % Len(sessions)

\* Whose turn it is in a list, counted from 0.
Turn(l) == rrIndex % Len(l)

\* Mutant: the target and the session each take a turn.
TwoTurns == rrIndex + 2

\* One turn per connection.
NextTurn == rrIndex + 1

\* handleTCP, with the lock: without a session or a target the connection is
\* dropped, otherwise it gets the next of each.  Connections are numbered in the
\* order in which they get the lock.
handleTCP(k) ==
    /\ conns[k].pc = "new" /\ \A j \in 1..(k - 1) : conns[j].pc # "new"
    /\ \/ /\ sessions = <<>> \/ targets = <<>>
          /\ conns' = [conns EXCEPT ![k].pc = "closed"]
          /\ UNCHANGED <<rrIndex, hits>>
       \/ /\ sessions # <<>> /\ targets # <<>>
          /\ conns' = [conns EXCEPT ![k] =
                [pc |-> "picked", sess |-> sessions[Turn(sessions) + 1]]]
          /\ hits' = [hits EXCEPT ![Turn(targets) + 1] = @ + 1]
          /\ rrIndex' = NextTurn
    /\ UNCHANGED <<client, handler, link, closed, sessions, targets, restarts>>

\* Open fails on a session known to be closed; a stream on a broken one opens.
OpenStream(k) ==
    /\ conns[k].pc = "picked"
    /\ conns' = [conns EXCEPT ![k].pc = IF conns[k].sess \in closed THEN "closed" ELSE "piping"]
    /\ UNCHANGED <<client, handler, link, closed, sessions, targets, rrIndex, hits, restarts>>

\* Mutant: only an end that both sides learn of ends the copying.
OnlyWhenUp(k) == link[conns[k].sess] = "up"

\* One direction of the copy can end: a peer closes, the client cannot dial the
\* target (handleStream), or the session is closed.
CopyEnds(k) == link[conns[k].sess] = "up" \/ conns[k].sess \in closed

\* The first end closes the connection and the stream.
EndPipe(k) ==
    /\ conns[k].pc = "piping" /\ CopyEnds(k)
    /\ conns' = [conns EXCEPT ![k].pc = "closed"]
    /\ UNCHANGED <<client, handler, link, closed, sessions, targets, rrIndex, hits, restarts>>

\* The server's pod restarts: its links break, its connections are gone, and it
\* has no targets until its file is read.
ServerRestart ==
    /\ restarts < MaxRestarts /\ restarts' = restarts + 1
    /\ LET alive == {s \in Ids : handler[s] # "unborn"} IN
          /\ link' = [s \in Ids |-> IF s \in alive THEN "cut" ELSE link[s]]
          /\ closed' = alive
          /\ handler' = [s \in Ids |-> IF s \in alive THEN "returned" ELSE handler[s]]
    /\ sessions' = <<>> /\ targets' = <<>> /\ rrIndex' = 0 /\ hits' = <<>>
    /\ conns' = [k \in Conns |->
          IF conns[k].pc = "new" THEN conns[k] ELSE [conns[k] EXCEPT !.pc = "closed"]]
    /\ UNCHANGED client

Next ==
    \/ \E c \in Clients : Dial(c) \/ ClientNotices(c)
    \/ \E s \in Ids : Register(s) \/ Reap(s) \/ Cut(s) \/ ServerNotices(s)
    \/ \E k \in Conns : handleTCP(k) \/ OpenStream(k) \/ EndPipe(k)
    \/ \E l \in Lists : SetTargets(l)
    \/ ServerRestart

Spec == Init /\ [][Next]_vars

\* Goroutines go on, the client retries every 5 seconds, and keepalives detect a
\* broken link on either side.  A healthy connection may last for ever.
FairSpec ==
    /\ Spec
    /\ \A c \in Clients : WF_vars(Dial(c)) /\ WF_vars(ClientNotices(c))
    /\ \A s \in Ids : WF_vars(Register(s)) /\ WF_vars(Reap(s)) /\ WF_vars(ServerNotices(s))
    /\ \A k \in Conns :
          WF_vars(OpenStream(k)) /\ WF_vars(conns[k].sess \in closed /\ EndPipe(k))

-----------------------------------------------------------------------------
(* Properties. *)

\* The list holds each session whose handler is running exactly once and no
\* other, whichever of them come and go meanwhile: removal by index takes the
\* right one off (handleWS, server.go:204-225).
Registered ==
    /\ IsInjective(sessions)
    /\ ToSet(sessions) = {s \in Ids : handler[s] = "polling"}

\* While the list of targets stays the same, no target gets two connections more
\* than another, also when sessions come and go (handleTCP, server.go:106-114;
\* docs/tests.md:51).
RoundRobin == \A i, j \in DOMAIN hits : hits[i] <= hits[j] + 1

\* A connection that was sent through a link that broke does not hang: it is
\* closed in the end (server.go:119-157).
BrokenConnsEnd ==
    \A k \in Conns :
        (conns[k].pc \in {"picked", "piping"} /\ link[conns[k].sess] = "cut")
            ~> (conns[k].pc = "closed")

\* When links no longer break and the server no longer restarts, every client has
\* a registered session again and the list holds no dead one (Client.Start,
\* client.go:27-35; handleWS).
Recovers ==
    <>[](/\ \A c \in Clients : client[c] \in ToSet(sessions)
         /\ \A s \in ToSet(sessions) : link[s] = "up")
=============================================================================
