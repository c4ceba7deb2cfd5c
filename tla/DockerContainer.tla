--------------------------- MODULE DockerContainer ---------------------------
(***************************************************************************)
(* The DockerContainers of one Docker host and the reconciler that keeps a *)
(* container running for each of them                                      *)
(* (internal/controller/dockercontainer/reconciler.go).                    *)
(*                                                                         *)
(* As in DockerJob, the worker makes one call per action, between the API  *)
(* server, the informer cache and the engine.  Unlike a job, the object's  *)
(* spec can be edited at any time, and the container is found by the name  *)
(* spec.containerName, which nothing keeps apart from another object's.    *)
(***************************************************************************)
EXTENDS Integers, Sequences, FiniteSets

CONSTANTS CRs,             \* the DockerContainer objects
          Specs,           \* the specs each of them may be given
          BrokenCommands,  \* commands the engine cannot start
          MaxEdits,        \* bound: edits of each object's spec
          MaxMishaps,      \* bound: exits and foreign removals of containers
          MaxFaults        \* bound: failed calls, crashes, stale reads

\* Optional settings hold "Unset" when the manifest leaves them out; "others"
\* stands for ports, volumes, network and health check.
ASSUME SpecsAssumption ==
    /\ CRs # {} /\ Specs = [c \in CRs |-> Specs[c]]
    /\ \A c \in CRs : Specs[c] # {} /\ \A s \in Specs[c] :
          s = [containerName |-> s.containerName, image |-> s.image,
               command |-> s.command, env |-> s.env, envVars |-> s.envVars,
               restartPolicy |-> s.restartPolicy, resources |-> s.resources,
               others |-> s.others, secretVolumes |-> s.secretVolumes]
ASSUME BoundsAssumption ==
    MaxEdits \in Nat /\ MaxMishaps \in Nat /\ MaxFaults \in Nat

AllSpecs == UNION {Specs[c] : c \in CRs}
Names    == {s.containerName : s \in AllSpecs}

VARIABLES
    crs,        \* the objects at the API server
    seen,       \* the objects as the informer cache serves them
    pending,    \* per object, the watch events on their way to the cache
    pc,         \* the worker's next call, "idle" between two reconciles
    cur,        \* the object it reconciles
    loc,        \* its copy of that object
    snap,       \* what ContainerList and ContainerInspect told it
    conts,      \* the containers at the engine, by name
    recreates,  \* how often a container was removed because of drift
    mishaps,    \* exits and foreign removals so far
    faults      \* failed calls, crashes and stale reads so far

kube   == <<crs, seen, pending>>
worker == <<pc, cur, loc, snap>>
vars   == <<kube, worker, conts, recreates, mishaps, faults>>

-----------------------------------------------------------------------------
(* Specs and the configuration a container is created with. *)

\* The limits of a container: a quantity that does not parse is no limit, so two
\* specs with the same value here give the same limits.
buildDockerResources(r) == IF r = "Unset" THEN "unlimited" ELSE r

\* What createAndStartContainer passes to ContainerCreate; a setting the spec
\* leaves out gets the engine's or the image's default.
BuildConfig(s) ==
    [image |-> s.image,
     command |-> IF s.command = "Unset" THEN "image default" ELSE s.command,
     env |-> s.env \cup s.envVars,
     restartPolicy |-> IF s.restartPolicy = "Unset" THEN "no" ELSE s.restartPolicy,
     resources |-> buildDockerResources(s.resources),
     others |-> s.others]

\* Mutant: a setting left out is compared too.
DefaultsCompared(cfg, s) ==
    \/ cfg.image # s.image \/ cfg.command # s.command \/ ~(s.env \subseteq cfg.env)
    \/ cfg.restartPolicy # s.restartPolicy \/ cfg.resources # s.resources

\* Drift: a setting of the spec that the inspected container does not have.
\* Settings left out, envVars, others and secretVolumes are not compared, nor
\* is environment the container has and the spec no longer lists.
needsRecreate(cfg, s) ==
    \/ cfg.image # s.image
    \/ s.command # "Unset" /\ cfg.command # s.command
    \/ ~(s.env \subseteq cfg.env)
    \/ s.restartPolicy # "Unset" /\ cfg.restartPolicy # s.restartPolicy
    \/ s.resources # "Unset" /\ cfg.resources # buildDockerResources(s.resources)

Configs == {BuildConfig(s) : s \in AllSpecs}
Secrets == UNION {s.secretVolumes : s \in AllSpecs}

-----------------------------------------------------------------------------
(* State. *)

Lives  == {"new",       \* without the finalizer
           "active",    \* with the finalizer
           "deleting",  \* with the finalizer and a deletionTimestamp
           "gone"}
States == {"none", "created", "running", "exited"}
PCs    == {"idle", "addFinalizer", "finalize", "dropFinalizer", "list", "inspect",
           "status", "startFound", "stop", "remove", "create", "upload", "start"}

\* gen is metadata.generation, the number of edits of the spec; reported is
\* status.state (ID, health and address follow it and are left out).
Object == [life : Lives, rv : Nat, gen : Nat, spec : AllSpecs, reported : States]

\* An absent configuration is the empty set, a present one a singleton.  The
\* object that created a container and its generation are bookkeeping.
Container == [state : States, config : SUBSET Configs, secrets : SUBSET Secrets,
              by : SUBSET CRs, gen : Nat]
NoContainer == [state |-> "none", config |-> {}, secrets |-> {}, by |-> {}, gen |-> 0]
NewContainer(c, o) ==
    [state |-> "created", config |-> {BuildConfig(o.spec)}, secrets |-> {},
     by |-> {c}, gen |-> o.gen]

Created(s)  == [life |-> "new", rv |-> 0, gen |-> 0, spec |-> s, reported |-> "none"]
AnyCR       == CHOOSE c \in CRs : TRUE
AnySpec     == CHOOSE s \in AllSpecs : TRUE
NoSnapshot  == [state |-> "none", config |-> {}]

TypeOK ==
    /\ crs \in [CRs -> Object] /\ seen \in [CRs -> Object]
    /\ pending \in [CRs -> Seq(Object)]
    /\ pc \in PCs /\ cur \in CRs /\ loc \in Object
    /\ snap \in [state : States, config : SUBSET Configs]
    /\ conts \in [Names -> Container]
    /\ recreates \in [CRs -> Nat] /\ mishaps \in Nat /\ faults \in Nat

Init ==
    /\ crs \in {[c \in CRs |-> Created(f[c])] : f \in [CRs -> AllSpecs]}
    /\ \A c \in CRs : crs[c].spec \in Specs[c]
    /\ seen = crs /\ pending = [c \in CRs |-> <<>>]
    /\ pc = "idle" /\ cur = AnyCR /\ loc = Created(AnySpec) /\ snap = NoSnapshot
    /\ conts = [n \in Names |-> NoContainer]
    /\ recreates = [c \in CRs |-> 0] /\ mishaps = 0 /\ faults = 0

-----------------------------------------------------------------------------
(* The API server and the engine, as the reconciler's calls see them. *)

Fault   == faults < MaxFaults /\ faults' = faults + 1
NoFault == UNCHANGED faults
Goto(l) == pc' = l /\ UNCHANGED <<cur, loc, snap>>

\* The end of a reconcile: its local variables are gone.
Return == pc' = "idle" /\ cur' = AnyCR /\ loc' = Created(AnySpec) /\ snap' = NoSnapshot

name == loc.spec.containerName

\* A write goes through only on the version it was read from.
Accepts == crs[cur].life # "gone" /\ loc.rv = crs[cur].rv
Bump(o) == [o EXCEPT !.rv = @ + 1]
SetLife(o, l) == Bump([o EXCEPT !.life = l])

SetReported(o, st) == Bump([o EXCEPT !.reported = st])
Edited(o, s) == Bump([[o EXCEPT !.spec = s] EXCEPT !.gen = @ + 1])
Store(c, o) ==
    /\ crs' = [crs EXCEPT ![c] = o]
    /\ pending' = [pending EXCEPT ![c] = Append(@, o)]
    /\ UNCHANGED seen
Refused ==
    /\ UNCHANGED kube
    /\ \/ ~Accepts /\ NoFault
       \/ Accepts /\ Fault

-----------------------------------------------------------------------------
(* Reconcile: one action per call of the worker. *)

\* Mutant: the deletion is not noticed.
DeletionIgnored(o) == IF o.life = "new" THEN "addFinalizer" ELSE "list"

FirstCall(o) ==
    CASE o.life = "new" -> "addFinalizer"
      [] o.life = "active" -> "list"
      [] OTHER -> "finalize"

\* The worker takes an object from the queue and reads it from the cache.  Every
\* reconcile requeues its object after a minute, an error earlier, so one may
\* begin whenever none runs.  A stale read is counted as a fault.
Begin(c) ==
    /\ pc = "idle" /\ seen[c].life # "gone"
    /\ pc' = FirstCall(seen[c]) /\ cur' = c /\ loc' = seen[c] /\ snap' = NoSnapshot
    /\ IF pending[c] = <<>> THEN NoFault ELSE Fault
    /\ UNCHANGED <<kube, conts, recreates, mishaps>>

\* The finalizer is written before anything is done at the engine.
AddFinalizer ==
    /\ pc = "addFinalizer"
    /\ \/ /\ Accepts /\ NoFault
          /\ Store(cur, SetLife(loc, "active"))
          /\ pc' = "list" /\ loc' = SetLife(loc, "active") /\ UNCHANGED <<cur, snap>>
       \/ Refused /\ Return
    /\ UNCHANGED <<conts, recreates, mishaps>>

\* Mutant: an error of the removal is only logged.
RemovalErrorLogged ==
    /\ pc = "finalize" /\ Goto("dropFinalizer")
    /\ \/ conts' = [conts EXCEPT ![name] = NoContainer] /\ NoFault
       \/ conts[name].state # "none" /\ Fault /\ UNCHANGED conts
    /\ UNCHANGED <<kube, recreates, mishaps>>

\* deleteExternalResources: a container that is not there counts as removed, any
\* other error keeps the finalizer.  The tunnel containers it also removes, by
\* names no container of this module has, are left out.
Finalize ==
    /\ pc = "finalize"
    /\ \/ conts' = [conts EXCEPT ![name] = NoContainer] /\ NoFault /\ Goto("dropFinalizer")
       \/ conts[name].state # "none" /\ Fault /\ Return /\ UNCHANGED conts
    /\ UNCHANGED <<kube, recreates, mishaps>>

DropFinalizer ==
    /\ pc = "dropFinalizer"
    /\ \/ Accepts /\ NoFault /\ Store(cur, SetLife(loc, "gone"))
       \/ Refused
    /\ Return
    /\ UNCHANGED <<conts, recreates, mishaps>>

\* ContainerList, searched for the name.
List ==
    /\ pc = "list"
    /\ \/ /\ conts[name].state = "none" /\ NoFault /\ Goto("create")
       \/ /\ conts[name].state # "none" /\ NoFault
          /\ pc' = "inspect" /\ snap' = [snap EXCEPT !.state = conts[name].state]
          /\ UNCHANGED <<cur, loc>>
       \/ Fault /\ Return
    /\ UNCHANGED <<kube, conts, recreates, mishaps>>

\* What follows the start of a container found stopped: the drift detection.
AfterStart == IF \E cfg \in snap.config : needsRecreate(cfg, loc.spec)
              THEN "stop" ELSE "idle"

\* Mutant: a stopped container is left alone.
NeverStarted == AfterStart

\* What follows the status update.
AfterStatus == IF snap.state # "running" THEN "startFound" ELSE AfterStart

\* The end of syncContainer, or its next call.
Continue(l) == IF l = "idle" THEN Return ELSE Goto(l)

\* ContainerInspect; without an answer there is no drift detection.
Inspect ==
    /\ pc = "inspect"
    /\ pc' = "status"
    /\ \/ /\ conts[name].state # "none" /\ NoFault
          /\ snap' = [snap EXCEPT !.config = conts[name].config]
       \/ UNCHANGED snap /\ IF conts[name].state = "none" THEN NoFault ELSE Fault
    /\ UNCHANGED <<kube, cur, loc, conts, recreates, mishaps>>

\* The status is written if it changed; a failure is only logged.
WriteStatus ==
    /\ pc = "status" /\ Continue(AfterStatus)
    /\ \/ loc.reported = snap.state /\ NoFault /\ UNCHANGED kube
       \/ /\ loc.reported # snap.state /\ Accepts /\ NoFault
          /\ Store(cur, SetReported(loc, snap.state))
       \/ loc.reported # snap.state /\ Refused
    /\ UNCHANGED <<conts, recreates, mishaps>>

\* ContainerStart: fails on a container that is gone and on a command the
\* engine cannot run.
Startable(n) ==
    /\ conts[n].state # "none"
    /\ \A cfg \in conts[n].config : cfg.command \notin BrokenCommands
Launch(l) ==
    \/ /\ Startable(name) /\ NoFault
       /\ conts' = [conts EXCEPT ![name].state = "running"]
       /\ Continue(l)
    \/ /\ IF Startable(name) THEN Fault ELSE NoFault
       /\ Return /\ UNCHANGED conts

StartFound ==
    /\ pc = "startFound" /\ Launch(AfterStart)
    /\ UNCHANGED <<kube, recreates, mishaps>>

\* ContainerStop before a recreation; a failure is only logged.
Stop ==
    /\ pc = "stop" /\ Goto("remove")
    /\ \/ /\ conts[name].state = "running" /\ NoFault
          /\ conts' = [conts EXCEPT ![name].state = "exited"]
       \/ UNCHANGED conts /\ IF conts[name].state # "running" THEN NoFault ELSE Fault
    /\ UNCHANGED <<kube, recreates, mishaps>>

\* ContainerRemove by ID: an error, not found included, ends the reconcile.
Remove ==
    /\ pc = "remove"
    /\ \/ /\ conts[name].state # "none" /\ NoFault
          /\ conts' = [conts EXCEPT ![name] = NoContainer]
          /\ recreates' = [recreates EXCEPT ![cur] = @ + 1]
          /\ Goto("create")
       \/ /\ IF conts[name].state = "none" THEN NoFault ELSE Fault
          /\ Return /\ UNCHANGED <<conts, recreates>>
    /\ UNCHANGED <<kube, mishaps>>

\* createAndStartContainer up to ContainerCreate.  It ends early when the pull
\* credentials, the image or a secret of envVars cannot be had.
CreateContainer ==
    /\ pc = "create"
    /\ \/ /\ conts[name].state = "none" /\ NoFault
          /\ conts' = [conts EXCEPT ![name] = NewContainer(cur, loc)]
          /\ Goto(IF loc.spec.secretVolumes = {} THEN "start" ELSE "upload")
       \/ /\ IF conts[name].state # "none" THEN NoFault ELSE Fault
          /\ Return /\ UNCHANGED conts
    /\ UNCHANGED <<kube, recreates, mishaps>>

\* Mutant: a failed upload does not keep the container from starting.
UploadErrorLogged ==
    /\ pc = "upload" /\ Goto("start")
    /\ \E S \in SUBSET loc.spec.secretVolumes :
          conts' = [conts EXCEPT ![name].secrets = S]
    /\ UNCHANGED <<kube, recreates, mishaps, faults>>

\* The secret volumes are copied one after the other; a failure leaves the
\* container behind with the ones copied so far.
Upload ==
    /\ pc = "upload"
    /\ \/ /\ conts[name].state # "none" /\ NoFault
          /\ conts' = [conts EXCEPT ![name].secrets = loc.spec.secretVolumes]
          /\ Goto("start")
       \/ /\ conts[name].state # "none" /\ Fault /\ Return
          /\ \E S \in SUBSET loc.spec.secretVolumes :
                S # loc.spec.secretVolumes /\ conts' = [conts EXCEPT ![name].secrets = S]
       \/ conts[name].state = "none" /\ NoFault /\ Return /\ UNCHANGED conts
    /\ UNCHANGED <<kube, recreates, mishaps>>

StartContainer ==
    /\ pc = "start" /\ Launch("idle")
    /\ UNCHANGED <<kube, recreates, mishaps>>

syncContainer ==
    \/ List \/ Inspect \/ WriteStatus \/ StartFound \/ Stop \/ Remove
    \/ CreateContainer \/ Upload \/ StartContainer
Step == AddFinalizer \/ Finalize \/ DropFinalizer \/ syncContainer

-----------------------------------------------------------------------------
(* Everything else. *)

\* The user edits the spec.
UserEdit(c, s) ==
    /\ crs[c].life \in {"new", "active"} /\ crs[c].gen < MaxEdits
    /\ s \in Specs[c] /\ s # crs[c].spec
    /\ Store(c, Edited(crs[c], s))
    /\ UNCHANGED <<worker, conts, recreates, mishaps, faults>>

\* The user deletes the object; without a finalizer it is gone at once.
UserDelete(c) ==
    /\ crs[c].life \in {"new", "active"}
    /\ Store(c, SetLife(crs[c], IF crs[c].life = "new" THEN "gone" ELSE "deleting"))
    /\ UNCHANGED <<worker, conts, recreates, mishaps, faults>>

\* The informer receives the next watch event of an object.
Deliver(c) ==
    /\ pending[c] # <<>>
    /\ seen' = [seen EXCEPT ![c] = Head(pending[c])]
    /\ pending' = [pending EXCEPT ![c] = Tail(pending[c])]
    /\ UNCHANGED <<crs, worker, conts, recreates, mishaps, faults>>

\* The manager dies and comes back: the worker's state is lost, the cache listed anew.
Crash ==
    /\ Fault /\ Return
    /\ seen' = crs /\ pending' = [c \in CRs |-> <<>>]
    /\ UNCHANGED <<crs, conts, recreates, mishaps>>

Mishap == mishaps < MaxMishaps /\ mishaps' = mishaps + 1

\* A container exits, and somebody else removes one.
Exit(n) ==
    /\ conts[n].state = "running" /\ Mishap
    /\ conts' = [conts EXCEPT ![n].state = "exited"]
    /\ UNCHANGED <<kube, worker, recreates, faults>>
ForeignRemove(n) ==
    /\ conts[n].state # "none" /\ Mishap
    /\ conts' = [conts EXCEPT ![n] = NoContainer]
    /\ UNCHANGED <<kube, worker, recreates, faults>>

\* Every object is gone and the cache knows: nothing is left to do.
Done ==
    /\ pc = "idle" /\ \A c \in CRs : seen[c].life = "gone"
    /\ UNCHANGED vars

Next ==
    \/ Step \/ Crash \/ Done
    \/ \E c \in CRs : Begin(c) \/ UserDelete(c) \/ Deliver(c)
    \/ \E c \in CRs : \E s \in Specs[c] : UserEdit(c, s)
    \/ \E n \in Names : Exit(n) \/ ForeignRemove(n)

Spec == Init /\ [][Next]_vars

\* The worker goes on, the work queue is first in first out, so no object waits
\* for ever, and watch events arrive.  Nothing is assumed of users, of
\* containers or of faults.
FairSpec ==
    /\ Spec /\ WF_vars(Step)
    /\ \A c \in CRs : SF_vars(Begin(c)) /\ WF_vars(Deliver(c))

-----------------------------------------------------------------------------
(* Properties. *)

\* Every object has a container name of its own and keeps it.
OwnNames ==
    \A c, d \in CRs : \A s \in Specs[c], t \in Specs[d] :
        (s.containerName = t.containerName) <=> (c = d)

\* No container outlives its object: once a DockerContainer is gone from the API
\* server, whatever failed, crashed or was read stale on the way, no container it
\* created is left (the finalizer is set first and kept until the removal
\* succeeds, reconciler.go:96-114).
NoOrphan ==
    \A c \in CRs : crs[c].life = "gone" =>
        \A n \in Names : conts[n].state = "none" \/ c \notin conts[n].by

\* A container is recreated at most once per edit of the spec, counted from the
\* first generation: what createAndStartContainer builds never looks drifted to
\* needsRecreate, and the cache never goes back to an older spec.
NoChurn == \A c \in CRs : recreates[c] <= crs[c].gen

\* A running container has the secret files that its spec mounts.
SecretsPresent ==
    \A c \in CRs, n \in Names :
        (/\ conts[n].state = "running" /\ c \in conts[n].by
         /\ conts[n].gen = crs[c].gen)
            => conts[n].secrets = crs[c].spec.secretVolumes

\* Without faults no container runs without its secrets: they are uploaded between
\* creation and start (reconciler.go:471-484).  A failed upload leaves a created
\* container that the next reconcile starts as it is (:205), although the comment at
\* :476 asks "Should we proceed? Probably not".
SecretsFirst == faults = 0 => SecretsPresent

\* An object at rest: its container runs, nothing in it looks drifted, and the
\* status says so; or the container cannot start.  The latter is for good, also when
\* the spec has been repaired: a container found stopped is started before the
\* drift check, and an error of that start returns (reconciler.go:203-208).
AtRest(c) ==
    \/ crs[c].life # "active"
    \/ LET n == crs[c].spec.containerName IN
          \/ conts[n].state # "none" /\ ~Startable(n)
          \/ /\ conts[n].state = "running" /\ crs[c].reported = "running"
             /\ \A cfg \in conts[n].config : ~needsRecreate(cfg, crs[c].spec)

\* After the last edit, exit and fault, every live object comes to rest and stays
\* there (README.md:36, "ensures state converges").
Converges == <>[](\A c \in CRs : AtRest(c))

\* A deleted object is eventually gone (Reconcile, reconciler.go:104-114).
DeletionCompletes ==
    \A c \in CRs : (crs[c].life = "deleting") ~> (crs[c].life = "gone")
=============================================================================
