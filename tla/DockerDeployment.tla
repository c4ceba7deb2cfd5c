-------------------------- MODULE DockerDeployment ---------------------------
(***************************************************************************)
(* A DockerDeployment and the reconciler that creates and deletes          *)
(* DockerContainers for it (internal/controller/dockerdeployment).         *)
(*                                                                         *)
(* The reconciler counts the children its cache shows, those still being   *)
(* deleted included, and creates or deletes the difference, one API call   *)
(* after the other.  Timestamps have a resolution of one second, so        *)
(* children of one scale-up often tie, and the order of a tie is arbitrary *)
(* (sort.Slice over a list from a map).  What happens to a child itself,   *)
(* its finalizer included, is module DockerContainer; here it is only what *)
(* the reconciler sees of it.                                              *)
(***************************************************************************)
EXTENDS Integers, Sequences, FiniteSets, FiniteSetsExt, SequencesExt

CONSTANTS Replicas,    \* the values spec.replicas may be given
          MaxKids,     \* bound: children there are at a time, or in the cache
          MaxEdits,    \* bound: edits of spec.replicas
          MaxMishaps,  \* bound: children that stop or that somebody else deletes
          MaxFaults,   \* bound: failed calls, crashes, stale reads
          MaxTime      \* bound: seconds between children that exist

\* spec.replicas is an int32, so that there is a largest value.
ASSUME ReplicasAssumption ==
    Replicas \subseteq Nat /\ \E m \in Replicas : \A n \in Replicas : n <= m
ASSUME BoundsAssumption ==
    /\ MaxKids \in Nat /\ MaxEdits \in Nat /\ MaxMishaps \in Nat
    /\ MaxFaults \in Nat /\ MaxTime \in Nat

VARIABLES
    dep,       \* the DockerDeployment at the API server
    depSeen,   \* the DockerDeployment in the informer cache
    depOld,    \* whether that is an old version
    kids,      \* the DockerContainers at the API server
    kidsSeen,  \* the DockerContainers in the informer cache
    lag,       \* which informer is behind the API server
    pc,        \* the reconciler's next call
    loc,       \* the status of its copy of the deployment, and whether it is old
    todo,      \* how many children it still has to create
    victims,   \* which children it still has to delete
    running,   \* how many children it saw running
    edits, mishaps, faults, stale  \* counters; stale: reconciles on a stale list

worker   == <<pc, loc, todo, victims, running>>
counters == <<edits, mishaps, faults, stale>>
vars     == <<dep, depSeen, depOld, kids, kidsSeen, lag, worker, counters>>

Ids   == 1..MaxKids
Lives == {"none", "active", "deleting"}
Kid   == [life : Lives, born : Nat, state : {"pending", "running"}]
NoCopy == [available |-> 0, old |-> TRUE]
NoKid == [life |-> "none", born |-> 0, state |-> "pending"]
Deployment == [life : {"active", "deleting", "gone"}, replicas : Replicas, available : Nat]

\* Children that exist, and those that are not being deleted.
Present(ks) == {k \in Ids : ks[k] # NoKid}
Live(ks)    == {k \in Ids : ks[k].life = "active"}

TypeOK ==
    /\ dep \in Deployment /\ depSeen \in Deployment /\ depOld \in BOOLEAN
    /\ loc \in [available : Nat, old : BOOLEAN]
    /\ kids \in [Ids -> Kid] /\ kidsSeen \in [Ids -> Kid] /\ lag \in {"none", "dep", "kids"}
    /\ pc \in {"idle", "create", "delete", "status"}
    /\ todo \in Nat /\ victims \in Seq(Ids) /\ running \in Nat
    /\ {edits, mishaps, faults, stale} \subseteq Nat

Init ==
    /\ \E n \in Replicas :
          dep = [life |-> "active", replicas |-> n, available |-> 0]
    /\ depSeen = dep /\ depOld = FALSE /\ loc = NoCopy
    /\ kids = [k \in Ids |-> NoKid] /\ kidsSeen = kids /\ lag = "none"
    /\ pc = "idle" /\ todo = 0 /\ victims = <<>> /\ running = 0
    /\ edits = 0 /\ mishaps = 0 /\ faults = 0 /\ stale = 0

Fault ==
    faults < MaxFaults /\ faults' = faults + 1 /\ UNCHANGED <<edits, mishaps, stale>>
Mishap ==
    mishaps < MaxMishaps /\ mishaps' = mishaps + 1 /\ UNCHANGED <<edits, faults, stale>>

\* An object is stored, and its informer learns of it unless it lags.
SetDep(d) ==
    /\ dep' = d /\ depOld' = (lag = "dep")
    /\ depSeen' = IF lag = "dep" THEN depSeen ELSE d
SetKids(ks) ==
    kids' = ks /\ kidsSeen' = IF lag = "kids" THEN kidsSeen ELSE ks

Return ==
    pc' = "idle" /\ todo' = 0 /\ victims' = <<>> /\ running' = 0 /\ loc' = NoCopy

-----------------------------------------------------------------------------
(* Reconcile. *)

\* Mutant: only running children count.
RunningOnly(ks) == {k \in Ids : ks[k].life # "none" /\ ks[k].state = "running"}

\* The children the deployment controls; those being deleted are not left out.
Owned(ks) == {k \in Ids : ks[k].life \in {"active", "deleting"}}

\* The n newest children, newest first; children of the same second come in any
\* order.
Newest(ks, n) ==
    {s \in [1..n -> Owned(ks)] :
        /\ IsInjective(s)
        /\ \A i \in 1..n : \A k \in Owned(ks) \ {s[j] : j \in 1..i} :
              ks[k].born <= ks[s[i]].born}

\* Mutant: the comparison with "running" is the wrong way round.
NotRunning(ks) == Cardinality({k \in Owned(ks) : ks[k].state # "running"})
\* The children seen running.
Available(ks) == Cardinality({k \in Owned(ks) : ks[k].state = "running"})

\* Mutant: a deployment that is being deleted is reconciled too.
DeletionIgnored == depSeen.life # "gone"

\* The deployment is there and not being deleted.
ToReconcile == depSeen.life = "active"

\* Reconcile fetches the deployment, stops if it is being deleted, lists the
\* children and compares their number with spec.replicas.
Begin ==
    /\ pc = "idle" /\ ToReconcile
    /\ loc' = [available |-> depSeen.available, old |-> depOld]
    /\ running' = Available(kidsSeen)
    /\ LET diff == depSeen.replicas - Cardinality(Owned(kidsSeen)) IN
          \/ diff > 0 /\ pc' = "create" /\ todo' = diff /\ victims' = <<>>
          \/ diff < 0 /\ pc' = "delete" /\ todo' = 0 /\ victims' \in Newest(kidsSeen, 0 - diff)
          \/ diff = 0 /\ pc' = "status" /\ todo' = 0 /\ victims' = <<>>
    /\ IF Owned(kidsSeen) # Owned(kids)
          THEN stale < MaxFaults /\ stale' = stale + 1
          ELSE UNCHANGED stale
    /\ UNCHANGED <<dep, depSeen, depOld, kids, kidsSeen, lag, edits, mishaps, faults>>

\* A child of the deployment, which owns it.
constructContainer(t) == [life |-> "active", born |-> t, state |-> "pending"]

\* The second of the youngest child; earlier ones are not told apart.
Newborn == Max({kids[k].born : k \in Ids} \cup {kidsSeen[k].born : k \in Ids})
\* A random name that nothing refers to.
Unused == {k \in Ids : kids[k] = NoKid /\ kidsSeen[k] = NoKid}

\* Mutant: one round too many.
RoundsLeft == todo >= 1
\* After this one there are more children to create.
MoreToCreate == todo > 1

Create ==
    /\ pc = "create"
    /\ \/ /\ \E t \in {Newborn, Newborn + 1} :
                /\ t <= MaxTime /\ Unused # {}
                /\ SetKids([kids EXCEPT ![Min(Unused)] = constructContainer(t)])
          /\ todo' = todo - 1 /\ pc' = IF MoreToCreate THEN "create" ELSE "status"
          /\ UNCHANGED <<loc, victims, running, counters>>
       \/ Fault /\ Return /\ UNCHANGED <<kids, kidsSeen>>
    /\ UNCHANGED <<dep, depSeen, depOld, lag>>

\* Deleting a child that is already being deleted succeeds, one that is gone fails.
Delete ==
    /\ pc = "delete"
    /\ LET v == Head(victims) IN
          \/ /\ kids[v] # NoKid
             /\ SetKids([kids EXCEPT ![v].life = "deleting"])
             /\ victims' = Tail(victims)
             /\ pc' = IF Len(victims) = 1 THEN "status" ELSE "delete"
             /\ UNCHANGED <<loc, todo, running, counters>>
          \/ kids[v] = NoKid /\ Return /\ UNCHANGED <<kids, kidsSeen, counters>>
          \/ Fault /\ Return /\ UNCHANGED <<kids, kidsSeen>>
    /\ UNCHANGED <<dep, depSeen, depOld, lag>>

\* status.availableReplicas is written if it changed, and if the copy is current.
WriteStatus ==
    /\ pc = "status" /\ Return
    /\ \/ /\ loc.available # running /\ dep.life # "gone" /\ ~loc.old
          /\ SetDep([dep EXCEPT !.available = running])
          /\ UNCHANGED counters
       \/ /\ loc.available = running \/ dep.life = "gone" \/ loc.old
          /\ UNCHANGED <<dep, depSeen, depOld, counters>>
       \/ loc.available # running /\ Fault /\ UNCHANGED <<dep, depSeen, depOld>>
    /\ UNCHANGED <<kids, kidsSeen, lag>>

Reconcile == Begin \/ Create \/ Delete \/ WriteStatus

-----------------------------------------------------------------------------
(* Everything else. *)

UserScale(n) ==
    /\ dep.life = "active" /\ n # dep.replicas /\ edits < MaxEdits /\ edits' = edits + 1
    /\ SetDep([dep EXCEPT !.replicas = n])
    /\ loc' = [loc EXCEPT !.old = TRUE]
    /\ UNCHANGED <<kids, kidsSeen, lag, pc, todo, victims, running, mishaps, faults, stale>>

\* Deletion in the foreground, which waits for the children, or in the background.
UserDelete ==
    /\ dep.life = "active"
    /\ \E l \in {"deleting", "gone"} : SetDep([dep EXCEPT !.life = l])
    /\ loc' = [loc EXCEPT !.old = TRUE]
    /\ UNCHANGED <<kids, kidsSeen, lag, pc, todo, victims, running, counters>>

\* The garbage collector deletes the children of a deployment that is deleted.
Collect(k) ==
    /\ dep.life # "active" /\ kids[k].life = "active"
    /\ SetKids([kids EXCEPT ![k].life = "deleting"])
    /\ UNCHANGED <<dep, depSeen, depOld, lag, worker, counters>>
FinishDeletion ==
    /\ dep.life = "deleting" /\ Owned(kids) = {}
    /\ SetDep([dep EXCEPT !.life = "gone"])
    /\ loc' = [loc EXCEPT !.old = TRUE]
    /\ UNCHANGED <<kids, kidsSeen, lag, pc, todo, victims, running, counters>>

\* A child's container runs; it stops; somebody else deletes the child; and when
\* its container has been removed (at once, if it had no finalizer yet) it is gone.
KidRuns(k) ==
    /\ kids[k].life = "active" /\ kids[k].state # "running"
    /\ SetKids([kids EXCEPT ![k].state = "running"])
    /\ UNCHANGED <<dep, depSeen, depOld, lag, worker, counters>>
KidStops(k) ==
    /\ kids[k].state = "running" /\ kids[k].life = "active" /\ Mishap
    /\ SetKids([kids EXCEPT ![k].state = "pending"])
    /\ UNCHANGED <<dep, depSeen, depOld, lag, worker>>
KidDeleted(k) ==
    /\ kids[k].life = "active" /\ Mishap
    /\ SetKids([kids EXCEPT ![k].life = "deleting"])
    /\ UNCHANGED <<dep, depSeen, depOld, lag, worker>>
KidGone(k) ==
    /\ kids[k].life = "deleting" /\ SetKids([kids EXCEPT ![k] = NoKid])
    /\ UNCHANGED <<dep, depSeen, depOld, lag, worker, counters>>

\* An informer falls behind and catches up.  Events come in order, so meanwhile
\* the cache holds the state of all its objects at an earlier time.
FallBehind ==
    /\ lag = "none" /\ Fault /\ lag' \in {"dep", "kids"}
    /\ UNCHANGED <<dep, depSeen, depOld, kids, kidsSeen, worker>>
CatchUp ==
    /\ lag # "none" /\ lag' = "none" /\ depSeen' = dep /\ depOld' = FALSE /\ kidsSeen' = kids
    /\ UNCHANGED <<dep, kids, worker, counters>>

\* The manager restarts with a cache listed anew.
Crash ==
    /\ Fault /\ Return /\ lag' = "none" /\ depSeen' = dep /\ depOld' = FALSE /\ kidsSeen' = kids
    /\ UNCHANGED <<dep, kids>>

\* The deployment and its children are gone, and the cache knows.
Done ==
    /\ pc = "idle" /\ dep.life = "gone" /\ depSeen = dep /\ Present(kids) = {}
    /\ UNCHANGED vars

Next ==
    \/ Reconcile \/ UserDelete \/ FinishDeletion \/ FallBehind \/ CatchUp
    \/ Crash \/ Done
    \/ \E n \in Replicas : UserScale(n)
    \/ \E k \in Ids : Collect(k) \/ KidRuns(k) \/ KidStops(k) \/ KidDeleted(k) \/ KidGone(k)

Spec == Init /\ [][Next]_vars

\* The reconciler runs at least every 10 seconds, events arrive, the garbage
\* collector works, and every child is started or removed by its own controller.
FairSpec ==
    /\ Spec /\ WF_vars(Begin) /\ WF_vars(Create \/ Delete \/ WriteStatus)
    /\ WF_vars(CatchUp) /\ WF_vars(FinishDeletion)
    /\ \A k \in Ids : WF_vars(Collect(k)) /\ WF_vars(KidRuns(k)) /\ WF_vars(KidGone(k))

-----------------------------------------------------------------------------
(* Properties. *)

Most   == Max(Replicas)
Least  == Min(Replicas)

\* Only a reconcile on a stale list creates children beyond the largest
\* spec.replicas, and each of them at most that many (controller.go:76-89).
OvershootBounded == Cardinality(Present(kids)) <= Most * (1 + stale)

\* After the last edit, mishap and fault exactly spec.replicas children exist, all
\* of them run, and the status says so (Reconcile, controller.go:48-129).
Converges ==
    <>[](dep.life = "active" =>
            /\ Cardinality(Present(kids)) = dep.replicas /\ Live(kids) = Present(kids)
            /\ dep.available = dep.replicas)

\* No child outlives the deployment, also if it is created after the deployment
\* has gone because the cache still shows it (constructContainer,
\* controller.go:151-154).
ChildrenCollected == dep.life # "active" ~> [](Present(kids) = {})

\* A scale-down of an active deployment leaves at least the smallest number of
\* containers that was ever desired: "Replicas is the number of desired containers"
\* (deployment_types.go:25), and scaling down expects "Zero errors" (tests.md:81).
\* What controller.go:90-102 deletes includes too many when a child being deleted
\* is counted and ties with a live one.
Kept ==
    [][Delete /\ dep.life = "active" /\ kids' # kids =>
          Cardinality(Live(kids')) >= Least]_vars
=============================================================================
