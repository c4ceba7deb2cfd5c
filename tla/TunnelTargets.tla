---------------------------- MODULE TunnelTargets ----------------------------
(***************************************************************************)
(* How the addresses of a DockerService's backends reach its tunnel server *)
(* (internal/controller/dockerservice/reconciler.go, tunnel/server.go).    *)
(*                                                                         *)
(* They go two ways.  The reconciler writes them to a ConfigMap, which the *)
(* kubelet copies to a file in the server's pod some time later, and which *)
(* the server polls.  And when that write changed something, a goroutine   *)
(* pushes the new list to the server at once.  So that a late file does    *)
(* not undo a push, the server ignores a file that differs from the last   *)
(* push for Window ticks.  Pushes may be lost and overtake one another,    *)
(* both processes may restart, and the cache of the ConfigMap may lag.     *)
(*                                                                         *)
(* Lists are sorted before they are written (reconciler.go:280), so they   *)
(* are sets here.  The ConfigMap and the Deployment that mounts it exist.  *)
(***************************************************************************)
EXTENDS Integers, FiniteSets

CONSTANTS Backends,    \* the addresses a backend may have
          Window,      \* ticks for which a push outranks the file (two minutes)
          SyncTicks,   \* ticks within which the kubelet updates the file
          MaxChanges,  \* bound: changes of the set of backends
          MaxFaults    \* bound: failed calls, restarts

\* The kubelet is faster than the window, which is what makes the window useful.
ASSUME WindowAssumption == Window \in Nat /\ SyncTicks \in Nat /\ SyncTicks < Window
ASSUME BoundsAssumption == MaxChanges \in Nat /\ MaxFaults \in Nat
ASSUME BackendsAssumption == "blank" \notin Backends

VARIABLES
    backends,   \* the addresses in the statuses of the selected DockerContainers
    changes,    \* changes of backends so far
    cm,         \* the ConfigMap, with its resourceVersion
    cmSeen,     \* the ConfigMap as the informer cache serves it
    pc,         \* the reconciler's next call
    want,       \* the list it works on
    pushes,     \* reload requests on their way to the server
    file,       \* the file in the server's pod
    behind,     \* ticks since the oldest change the file does not have
    targets,    \* Server.targets
    push,       \* Server.pushTargets
    age,        \* ticks since Server.lastPushTime; Window if longer ago or never
    reads,      \* file contents read by loadTargetsFromFile and not yet applied
    faults      \* failed calls and restarts so far

operator == <<cm, cmSeen, pc, want>>
server   == <<targets, push, age, reads>>
vars     == <<backends, changes, operator, pushes, file, behind, server, faults>>

\* A list and the version of the ConfigMap it was written as.  The server has
\* only the list; the version is bookkeeping.
List == [v : Nat, addrs : SUBSET Backends]
Empty == [v |-> 0, addrs |-> {}]
Ticker == 0   \* the polling goroutine; other readers are known by their push's version

TypeOK ==
    /\ backends \in SUBSET Backends /\ changes \in Nat
    /\ cm \in List /\ cmSeen \in List /\ want \in SUBSET Backends
    /\ pc \in {"idle", "write", "push"}
    /\ pushes \in SUBSET List /\ file \in List /\ behind \in Nat
    /\ targets \in List /\ push \in List /\ age \in 0..Window
    /\ reads \in SUBSET [by : Nat, got : List] /\ faults \in Nat

Init ==
    /\ backends = {} /\ changes = 0
    /\ cm = Empty /\ cmSeen = cm /\ pc = "idle" /\ want = {}
    /\ pushes = {} /\ file = cm /\ behind = 0
    /\ targets = Empty /\ push = Empty /\ age = Window /\ reads = {}
    /\ faults = 0

Fault == faults < MaxFaults /\ faults' = faults + 1

-----------------------------------------------------------------------------
(* The reconciler of the DockerService. *)

\* A container gets, changes or loses the address in its status.
Change(S) ==
    /\ S # backends /\ changes < MaxChanges
    /\ backends' = S /\ changes' = changes + 1
    /\ UNCHANGED <<operator, pushes, file, behind, server, faults>>

\* Reconcile gathers the addresses of the selected containers.
Gather ==
    /\ pc = "idle" /\ pc' = "write" /\ want' = backends
    /\ UNCHANGED <<backends, changes, cm, cmSeen, pushes, file, behind, server, faults>>

\* CreateOrUpdate of the ConfigMap: nothing to do, an update, a conflict because
\* the cached copy is old, or a failed call.  Only an update is pushed.
WriteConfigMap ==
    /\ pc = "write"
    /\ \/ /\ cmSeen.addrs = want \/ cmSeen # cm
          /\ pc' = "idle" /\ UNCHANGED <<cm, behind, faults>>
       \/ /\ cmSeen.addrs # want /\ cmSeen = cm
          /\ pc' = "push" /\ cm' = [v |-> cm.v + 1, addrs |-> want]
          /\ behind' = IF file = cm THEN 0 ELSE behind
          /\ UNCHANGED faults
       \/ Fault /\ pc' = "idle" /\ UNCHANGED <<cm, behind>>
    /\ UNCHANGED <<backends, changes, cmSeen, want, pushes, file, server>>

\* Every running pod of the server is sent the list by a goroutine of its own;
\* the server has one, which the list of pods may lack.
triggerTunnelReload ==
    /\ pc = "push" /\ pc' = "idle"
    /\ \/ pushes' = pushes \cup {cm} /\ UNCHANGED faults
       \/ Fault /\ UNCHANGED pushes
    /\ UNCHANGED <<backends, changes, cm, cmSeen, want, file, behind, server>>

\* The informer receives the ConfigMap.
CacheSync ==
    /\ cmSeen # cm /\ cmSeen' = cm
    /\ UNCHANGED <<backends, changes, cm, pc, want, pushes, file, behind, server, faults>>

\* The manager restarts; its goroutines are lost.
OperatorCrash ==
    /\ Fault /\ pc' = "idle" /\ cmSeen' = cm /\ pushes' = {}
    /\ UNCHANGED <<backends, changes, cm, want, file, behind, server>>

-----------------------------------------------------------------------------
(* The tunnel server. *)

\* strings.Split gives one blank entry for an empty list; blank entries are dropped.
Split(S) == IF S = {} THEN {"blank"} ELSE S
\* Mutant: blank entries are kept.
ParseAll(l) == [l EXCEPT !.addrs = Split(l.addrs)]
Parse(l) == [l EXCEPT !.addrs = Split(l.addrs) \ {"blank"}]

\* Mutant: the time of the push is not recorded.
ReloadUndated(p) ==
    /\ p \in pushes /\ pushes' = pushes \ {p}
    /\ targets' = Parse(p) /\ push' = Parse(p) /\ UNCHANGED <<age, reads>>
    /\ UNCHANGED <<backends, changes, operator, file, behind, faults>>

\* A reload request arrives: a list is taken over, an empty one makes the server
\* read its file instead.
handleReload(p) ==
    /\ p \in pushes /\ pushes' = pushes \ {p}
    /\ \/ /\ p.addrs # {}
          /\ targets' = Parse(p) /\ push' = Parse(p) /\ age' = 0
          /\ UNCHANGED reads
       \/ /\ p.addrs = {}
          /\ reads' = reads \cup {[by |-> p.v, got |-> file]}
          /\ UNCHANGED <<targets, push, age>>
    /\ UNCHANGED <<backends, changes, operator, file, behind, faults>>

\* A request that does not reach the server.
LosePush(p) ==
    /\ p \in pushes /\ pushes' = pushes \ {p}
    /\ UNCHANGED <<backends, changes, operator, file, behind, server, faults>>

\* watchTargetsFile: the polling goroutine reads the file, without the lock.
watchTargetsFile ==
    /\ \A r \in reads : r.by # Ticker
    /\ reads' = reads \cup {[by |-> Ticker, got |-> file]}
    /\ UNCHANGED <<backends, changes, operator, pushes, file, behind, targets, push, age, faults>>

targetsEqual(a, b) == a.addrs = b.addrs

\* Mutants: a push outranks the file for ever, or not at all.
PushedOnce(l) == push # Empty /\ ~targetsEqual(l, push)
NeverStale(l) == FALSE

\* The file is taken to be older than the last push.
LikelyStale(l) == age < Window /\ ~targetsEqual(l, push)

\* loadTargetsFromFile, with the lock: what was read becomes the target list
\* unless a recent push says otherwise.
loadTargetsFromFile(r) ==
    /\ r \in reads /\ reads' = reads \ {r}
    /\ LET new == Parse(r.got) IN
          IF LikelyStale(new) \/ targetsEqual(new, targets)
              THEN UNCHANGED targets
              ELSE targets' = new
    /\ UNCHANGED <<backends, changes, operator, pushes, file, behind, push, age, faults>>

\* The server restarts: NewServer, without targets of its own.
ServerRestart ==
    /\ Fault
    /\ targets' = Empty /\ push' = Empty /\ age' = Window /\ reads' = {}
    /\ UNCHANGED <<backends, changes, operator, pushes, file, behind>>

-----------------------------------------------------------------------------
(* The kubelet and time. *)

KubeletSync ==
    /\ file # cm /\ file' = cm /\ behind' = 0
    /\ UNCHANGED <<backends, changes, operator, pushes, server, faults>>

\* The kubelet keeps to its bound, and a file is read and applied within a tick.
Tick ==
    /\ reads = {} /\ (file # cm => behind < SyncTicks)
    /\ age < Window \/ file # cm
    /\ age' = IF age < Window THEN age + 1 ELSE age
    /\ behind' = IF file # cm THEN behind + 1 ELSE 0
    /\ UNCHANGED <<backends, changes, operator, pushes, file, targets, push, reads, faults>>

Reconcile == Gather \/ WriteConfigMap \/ triggerTunnelReload
Next ==
    \/ Reconcile \/ CacheSync \/ OperatorCrash
    \/ watchTargetsFile \/ ServerRestart \/ KubeletSync \/ Tick
    \/ \E S \in SUBSET Backends : Change(S)
    \/ \E p \in pushes : handleReload(p) \/ LosePush(p)
    \/ \E r \in reads : loadTargetsFromFile(r)

Spec == Init /\ [][Next]_vars

\* The reconciler is called every 30 seconds, the file polled every 5; requests
\* end, one way or the other, and time passes: no goroutine holds a file's
\* contents for ever, so there is always another moment without one.
FairSpec ==
    /\ Spec /\ WF_vars(Reconcile) /\ WF_vars(CacheSync)
    /\ WF_vars(\E p \in pushes : handleReload(p) \/ LosePush(p))
    /\ WF_vars(watchTargetsFile)
    /\ \A id \in 0..MaxChanges :
          WF_vars(\E r \in reads : r.by = id /\ loadTargetsFromFile(r))
    /\ WF_vars(KubeletSync) /\ SF_vars(Tick)

-----------------------------------------------------------------------------
(* Properties. *)

\* For Window ticks after a push the server's targets are the pushed ones,
\* whatever the polling and the reload goroutines read meanwhile
\* (loadTargetsFromFile, server.go:308-315; docs/tests.md:73).
PushHolds == age < Window => targetsEqual(targets, push)

\* The file never replaces pushed targets by older ones, not even after the
\* window or with contents read before the push: "This prevents slow Kubelet
\* ConfigMap sync from reverting an instant push" (server.go:309).
PushNotReverted ==
    [][\A r \in reads :
          loadTargetsFromFile(r) /\ targets = push => targets'.v >= targets.v]_vars

\* When the backends stop changing, the server ends up with exactly their
\* addresses, although pushes are lost or reordered, the reconciler works from a
\* stale ConfigMap and either process restarts (reconciler.go:272-296,
\* server.go:273-324).
TargetsConverge == <>[](targets.addrs = backends)
=============================================================================
