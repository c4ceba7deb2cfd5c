------------------------------ MODULE DockerJob ------------------------------
(***************************************************************************)
(* One DockerJob and the reconciler that runs it to completion             *)
(* (internal/controller/dockerjob/reconciler.go).                          *)
(*                                                                         *)
(* Three parties share the state.  The API server holds the job; every     *)
(* accepted write gets a new resourceVersion and is sent to the informer   *)
(* cache as a watch event.  The Docker engine holds the container named    *)
(* containerName(job).  The worker (one per controller) runs Reconcile:    *)
(* it reads the job from the cache and then makes its Docker and API calls *)
(* one after the other, one action per call, so that a crash, an exit of   *)
(* the container or a deletion by the user can fall between any two.       *)
(***************************************************************************)
EXTENDS Integers, Sequences

CONSTANTS Specs,         \* the job specs to consider
          ExitCodes,     \* the exit codes a container may end with
          MaxSlips,      \* bound: crashes, lost writes, stale reads, foreign removals
          MaxDockerErrs, \* bound: Docker calls that fail
          MaxRestarts,   \* bound: restarts by the engine under OnFailure
          MaxTime        \* bound: the clock

Unset == -1   \* a nil pointer of the spec or the status

ASSUME SpecsAssumption ==
    Specs \subseteq [backoffLimit : Nat, deadline : Nat \cup {Unset},
                     ttl : Nat \cup {Unset}, restartPolicy : {"Never", "OnFailure"}]
ASSUME ExitCodesAssumption == ExitCodes \subseteq Nat
ASSUME BoundsAssumption ==
    /\ MaxSlips \in Nat /\ MaxDockerErrs \in Nat
    /\ MaxRestarts \in Nat /\ MaxTime \in Nat

VARIABLES
    spec,        \* the job's spec, fixed
    job,         \* the job at the API server
    seen,        \* the job as the informer cache serves it
    pending,     \* watch events on their way to the cache
    pc,          \* the worker's next call, "idle" between two reconciles
    loc,         \* the worker's copy of the job
    view,        \* whether the running reconcile began on the latest version
    cont,        \* the container at the engine: its state and last exit code
    now,         \* the clock
    starts,      \* how often ContainerStart has started a container
    restarts,    \* how often the engine has restarted it by itself
    exits,       \* the exit codes runs have ended with
    slips,       \* control-plane mishaps so far
    dockerErrs   \* failed Docker calls so far

kube   == <<job, seen, pending>>
worker == <<pc, loc, view>>
engine == <<cont, starts, restarts, exits>>
vars   == <<spec, now, kube, worker, engine, slips, dockerErrs>>

Terminal == {"Succeeded", "Failed"}
Phases   == {"None", "Running"} \cup Terminal   \* "None": not set yet
PCs      == {"idle", "addFinalizer", "finalize", "dropFinalizer", "inspect",
             "create", "start", "retry", "recreate", "restart", "stop", "kill",
             "write", "writeTTL", "ttl"}

Lives    == {"new",       \* without the finalizer
             "active",    \* with the finalizer
             "deleting",  \* with the finalizer and a deletionTimestamp
             "gone"}

Job == [life : Lives, rv : Nat, phase : Phases, attempts : Nat,
        start : Nat \cup {Unset}, completion : Nat \cup {Unset},
        exitCode : Nat \cup {Unset}]
Container == [state : {"none", "created", "running", "exited"},
              code : Nat \cup {Unset}]

Created == [life |-> "new", rv |-> 0, phase |-> "None", attempts |-> 0,
            start |-> Unset, completion |-> Unset, exitCode |-> Unset]
NoContainer  == [state |-> "none", code |-> Unset]
NewContainer == [state |-> "created", code |-> Unset]

TypeOK ==
    /\ spec \in Specs
    /\ job \in Job /\ seen \in Job /\ loc \in Job /\ pending \in Seq(Job)
    /\ pc \in PCs /\ view \in {"fresh", "stale"}
    /\ cont \in Container /\ exits \in SUBSET ExitCodes
    /\ now \in Nat /\ starts \in Nat /\ restarts \in Nat
    /\ slips \in Nat /\ dockerErrs \in Nat

Init ==
    /\ spec \in Specs
    /\ job = Created /\ seen = Created /\ pending = <<>>
    /\ pc = "idle" /\ loc = Created /\ view = "fresh"
    /\ cont = NoContainer /\ starts = 0 /\ restarts = 0 /\ exits = {}
    /\ now = 0 /\ slips = 0 /\ dockerErrs = 0

-----------------------------------------------------------------------------
(* The API server and the engine, as the reconciler's calls see them. *)

Slip      == slips < MaxSlips /\ slips' = slips + 1
DockerErr == dockerErrs < MaxDockerErrs /\ dockerErrs' = dockerErrs + 1

\* The end of a reconcile: its local variables are gone.
Return == pc' = "idle" /\ loc' = Created /\ view' = "fresh"

\* A write goes through only on the version it was read from.
Accepts == job.life # "gone" /\ loc.rv = job.rv
Bump(v) == [v EXCEPT !.rv = @ + 1]
SetLife(v, l) == Bump([v EXCEPT !.life = l])
Store(v) == job' = v /\ pending' = Append(pending, v) /\ UNCHANGED seen
Refused ==
    /\ UNCHANGED kube
    /\ \/ ~Accepts /\ UNCHANGED slips
       \/ Accepts /\ Slip

\* ContainerRemove with Force: true; its outcome decides no later step.
ForceRemove ==
    \/ cont' = NoContainer /\ UNCHANGED dockerErrs
    \/ cont.state # "none" /\ DockerErr /\ UNCHANGED cont

-----------------------------------------------------------------------------
(* Reconcile: one action per call of the worker. *)

\* Mutants: a finished job is synced again; the two branches are swapped.
AlwaysSync(o) == "inspect"
SwappedSync(o) == IF o.phase \in Terminal THEN "inspect" ELSE "ttl"

AfterFinalizer(o) == IF o.phase \in Terminal THEN "ttl" ELSE "inspect"

\* Mutants: the deletion is not noticed; the container is not removed first.
DeletionIgnored(o) == IF o.life = "new" THEN "addFinalizer" ELSE AfterFinalizer(o)
RemovalSkipped(o) == IF o.life = "deleting" THEN "dropFinalizer" ELSE DeletionIgnored(o)

FirstCall(o) ==
    CASE o.life = "deleting" -> "finalize"
      [] o.life = "new" -> "addFinalizer"
      [] OTHER -> AfterFinalizer(o)

\* The worker takes the job from the queue and reads it from the cache.  A
\* watch event, a requeue timer, a retry after an error or the periodic resync
\* puts a job into the queue, so a reconcile may begin whenever none runs.
Begin ==
    /\ pc = "idle" /\ seen.life # "gone"
    /\ \/ seen.rv = job.rv /\ view' = "fresh" /\ UNCHANGED slips
       \/ seen.rv # job.rv /\ view' = "stale" /\ Slip
    /\ loc' = seen
    /\ pc' = FirstCall(seen)
    /\ UNCHANGED <<spec, now, kube, engine, dockerErrs>>

\* The job is no longer in the cache: Reconcile returns at once.
BeginGone ==
    /\ pc = "idle" /\ seen.life = "gone"
    /\ UNCHANGED vars

AddFinalizer ==
    /\ pc = "addFinalizer"
    /\ \/ /\ Accepts
          /\ loc' = SetLife(loc, "active")
          /\ Store(loc')
          /\ pc' = AfterFinalizer(loc')
          /\ UNCHANGED <<view, slips>>
       \/ Refused /\ Return
    /\ UNCHANGED <<spec, now, engine, dockerErrs>>

\* The job is being deleted: remove its container, and go on if that fails.
Finalize ==
    /\ pc = "finalize"
    /\ ForceRemove
    /\ pc' = "dropFinalizer"
    /\ UNCHANGED <<spec, now, kube, loc, view, starts, restarts, exits, slips>>

\* A deleted object disappears with its last finalizer.
DropFinalizer ==
    /\ pc = "dropFinalizer"
    /\ \/ /\ Accepts
          /\ Store(SetLife(loc, "gone"))
          /\ UNCHANGED slips
       \/ Refused
    /\ Return
    /\ UNCHANGED <<spec, now, engine, dockerErrs>>

\* Mutant: a phase the API does not have.
UnknownPhase(o) == [o EXCEPT !.phase = "Error", !.completion = now]

\* setStatus(Failed): the status to be written once the job has failed.
Fail(o) == [o EXCEPT !.phase = "Failed", !.completion = now]

\* Mutant: the deadline counts from the completion time.
PastCompletion(o) ==
    /\ spec.deadline # Unset /\ o.completion # Unset
    /\ now > o.completion + spec.deadline

SetPhase(o, p) == [o EXCEPT !.phase = p]

PastDeadline(o) ==
    /\ spec.deadline # Unset /\ o.start # Unset
    /\ now > o.start + spec.deadline

CanRetry(o) == o.attempts <= spec.backoffLimit

\* ContainerInspect, and the branch of syncJob its answer selects.
InspectFails ==
    /\ pc = "inspect"
    /\ DockerErr /\ Return
    /\ UNCHANGED <<spec, now, kube, engine, slips>>

InspectMissing ==
    /\ pc = "inspect" /\ cont.state = "none"
    /\ pc' = "create"
    /\ UNCHANGED <<spec, now, kube, loc, view, engine, slips, dockerErrs>>

InspectRunning ==
    /\ pc = "inspect" /\ cont.state = "running"
    /\ \/ /\ PastDeadline(loc)
          /\ pc' = "stop" /\ UNCHANGED <<loc, view>>
       \/ /\ ~PastDeadline(loc) /\ loc.phase # "Running"
          /\ loc' = SetPhase(loc, "Running")
          /\ pc' = "write" /\ UNCHANGED view
       \/ /\ ~PastDeadline(loc) /\ loc.phase = "Running"
          /\ Return
    /\ UNCHANGED <<spec, now, kube, engine, slips, dockerErrs>>

Exited(o) == [o EXCEPT !.exitCode = cont.code, !.completion = now]

InspectExited ==
    /\ pc = "inspect" /\ cont.state = "exited"
    /\ LET o == Exited(loc) IN
       \/ /\ cont.code = 0
          /\ loc' = SetPhase(o, "Succeeded") /\ pc' = "writeTTL"
       \/ /\ cont.code # 0 /\ CanRetry(loc)
          /\ loc' = o /\ pc' = "retry"
       \/ /\ cont.code # 0 /\ ~CanRetry(loc)
          /\ loc' = SetPhase(o, "Failed") /\ pc' = "writeTTL"
    /\ UNCHANGED <<spec, now, kube, view, engine, slips, dockerErrs>>

InspectOther ==
    /\ pc = "inspect" /\ cont.state = "created"
    /\ Return
    /\ UNCHANGED <<spec, now, kube, engine, slips, dockerErrs>>

RemoveForRetry ==
    /\ pc = "retry"
    /\ ForceRemove
    /\ pc' = "recreate"
    /\ UNCHANGED <<spec, now, kube, loc, view, starts, restarts, exits, slips>>

\* createAndStartContainer up to ContainerCreate.  It fails when the image or
\* a secret cannot be had, when the name is taken, or when the call fails,
\* before or after the engine has created the container.
CreateContainer ==
    /\ pc \in {"create", "recreate"}
    /\ \/ /\ cont.state = "none"
          /\ cont' = NewContainer
          /\ pc' = IF pc = "create" THEN "start" ELSE "restart"
          /\ UNCHANGED <<loc, dockerErrs>>
       \/ /\ \/ cont.state # "none" /\ UNCHANGED <<cont, dockerErrs>>
             \/ /\ cont.state = "none" /\ DockerErr
                /\ cont' \in {cont, NewContainer}
          /\ loc' = Fail(loc) /\ pc' = "write"
    /\ UNCHANGED <<spec, now, kube, view, starts, restarts, exits, slips>>

Counted(o) == [o EXCEPT !.attempts = @ + 1]

\* Mutant: a retry is not counted.
RetryNotCounted(o) ==
    IF pc = "start" THEN [Counted(o) EXCEPT !.phase = "Running", !.start = now]
                    ELSE [o EXCEPT !.exitCode = Unset, !.completion = Unset]

\* The status to be written once the container runs: after "not found" with a
\* new StartTime, after a retry with the old one.
Started(o) ==
    IF pc = "start"
    THEN [Counted(o) EXCEPT !.phase = "Running", !.start = now]
    ELSE [Counted(o) EXCEPT !.phase = "Running", !.exitCode = Unset, !.completion = Unset]

\* The rest of createAndStartContainer: upload the secrets, ContainerStart.
StartContainer ==
    /\ pc \in {"start", "restart"}
    /\ pc' = "write"
    /\ \/ /\ cont.state = "created"
          /\ cont' = [cont EXCEPT !.state = "running"] /\ starts' = starts + 1
          /\ loc' = Started(loc) /\ UNCHANGED dockerErrs
       \/ /\ cont.state = "created" /\ DockerErr
          /\ \/ UNCHANGED <<cont, starts>>
             \/ cont' = [cont EXCEPT !.state = "running"] /\ starts' = starts + 1
          /\ loc' = Fail(loc)
       \/ /\ cont.state = "none"
          /\ loc' = Fail(loc) /\ UNCHANGED <<cont, starts, dockerErrs>>
    /\ UNCHANGED <<spec, now, kube, view, restarts, exits, slips>>

\* The deadline has passed: stop and remove the container, ignoring errors.
StopContainer ==
    /\ pc = "stop"
    /\ \/ /\ cont.state = "running" /\ UNCHANGED dockerErrs
          /\ \E c \in ExitCodes :
                /\ cont' = [state |-> "exited", code |-> c]
                /\ exits' = exits \cup {c}
       \/ /\ cont.state # "running" /\ UNCHANGED <<cont, exits, dockerErrs>>
       \/ DockerErr /\ UNCHANGED <<cont, exits>>
    /\ pc' = "kill"
    /\ UNCHANGED <<spec, now, kube, loc, view, starts, restarts, slips>>

KillContainer ==
    /\ pc = "kill"
    /\ ForceRemove
    /\ loc' = Fail(loc) /\ pc' = "write"
    /\ UNCHANGED <<spec, now, kube, view, starts, restarts, exits, slips>>

\* Status().Update, whose error is dropped wherever syncJob calls it.
WriteStatus ==
    /\ pc \in {"write", "writeTTL"}
    /\ \/ Accepts /\ Store(Bump(loc)) /\ UNCHANGED slips
       \/ Refused
    /\ \/ pc = "write" /\ Return
       \/ pc = "writeTTL" /\ pc' = "ttl" /\ UNCHANGED <<loc, view>>
    /\ UNCHANGED <<spec, now, engine, dockerErrs>>

\* Mutant: the comparison is turned round.
TTLNotExpired(o) ==
    /\ spec.ttl # Unset /\ o.completion # Unset
    /\ now - o.completion < spec.ttl

TTLExpired(o) ==
    /\ spec.ttl # Unset /\ o.completion # Unset
    /\ now - o.completion >= spec.ttl

handleTTLCleanup ==
    /\ pc = "ttl"
    /\ \/ TTLExpired(loc) /\ ForceRemove
       \/ ~TTLExpired(loc) /\ UNCHANGED <<cont, dockerErrs>>
    /\ Return
    /\ UNCHANGED <<spec, now, kube, starts, restarts, exits, slips>>

syncJob ==
    \/ InspectFails \/ InspectMissing \/ InspectRunning
    \/ InspectExited \/ InspectOther
    \/ RemoveForRetry \/ CreateContainer \/ StartContainer
    \/ StopContainer \/ KillContainer \/ WriteStatus

Reconcile ==
    \/ Begin \/ BeginGone \/ AddFinalizer \/ Finalize \/ DropFinalizer
    \/ syncJob \/ handleTTLCleanup

-----------------------------------------------------------------------------
(* The environment. *)

\* The container's process ends.  Restart policy "on-failure" makes the engine
\* start it again after a failure, without a limit.
Exit ==
    /\ cont.state = "running"
    /\ \E c \in ExitCodes :
          /\ exits' = exits \cup {c}
          /\ \/ /\ (spec.restartPolicy = "Never" \/ c = 0)
                /\ cont' = [state |-> "exited", code |-> c]
                /\ UNCHANGED restarts
             \/ /\ spec.restartPolicy = "OnFailure" /\ c # 0 /\ restarts < MaxRestarts
                /\ restarts' = restarts + 1
                /\ UNCHANGED cont
    /\ UNCHANGED <<spec, now, kube, worker, starts, slips, dockerErrs>>

\* Somebody else removes the container.
ForeignRemove ==
    /\ cont.state # "none"
    /\ Slip
    /\ cont' = NoContainer
    /\ UNCHANGED <<spec, now, kube, worker, starts, restarts, exits, dockerErrs>>

\* kubectl delete: the job lingers while it has the finalizer.
UserDelete ==
    /\ job.life \in {"new", "active"}
    /\ Store(SetLife(job, IF job.life = "new" THEN "gone" ELSE "deleting"))
    /\ UNCHANGED <<spec, now, worker, engine, slips, dockerErrs>>

Deliver ==
    /\ pending # <<>>
    /\ seen' = Head(pending) /\ pending' = Tail(pending)
    /\ UNCHANGED <<spec, now, job, worker, engine, slips, dockerErrs>>

\* The operator dies in the middle of a reconcile; the one that replaces it
\* lists the job anew before it starts its worker.
Crash ==
    /\ pc # "idle"
    /\ Slip
    /\ Return
    /\ seen' = job /\ pending' = <<>>
    /\ UNCHANGED <<spec, now, job, engine, dockerErrs>>

Tick ==
    /\ now < MaxTime
    /\ now' = now + 1
    /\ UNCHANGED <<spec, kube, worker, engine, slips, dockerErrs>>

Environment ==
    \/ Exit \/ ForeignRemove \/ UserDelete \/ Deliver \/ Crash \/ Tick

Next == Reconcile \/ Environment

Spec == Init /\ [][Next]_vars

\* The worker, the watch and the clock go on; containers need not end.
FairSpec == Spec /\ WF_vars(Reconcile) /\ WF_vars(Deliver) /\ WF_vars(Tick)

-----------------------------------------------------------------------------
(* Properties. *)

\* Every container start beyond the first and the backoffLimit retries is paid
\* for by a mishap: a crash, a status update that failed, a reconcile that
\* began on a stale copy, or a container somebody else removed.  syncJob
\* decides on retries from status.attempts alone and drops write errors.
RunsBounded == starts <= spec.backoffLimit + 1 + slips

\* Without mishaps status.attempts is the number of runs whenever no
\* reconcile is under way, except for a start that a deletion overtook.
AttemptsCountRuns ==
    (pc = "idle" /\ slips = 0 /\ dockerErrs = 0 /\ job.life \in {"new", "active"})
        => job.attempts = starts

\* A finished job never changes its phase again: a reconcile still working on
\* an older copy has its status update refused.
PhaseIsFinal == [][job.phase \in Terminal => job'.phase = job.phase]_vars

\* Without Docker errors a job that is gone has left no container behind: the
\* finalizer goes last, and a stale copy cannot bring the container back.
NoOrphan == (job.life = "gone" /\ dockerErrs = 0) => cont.state = "none"

Finished == job.phase \in Terminal \/ job.life \in {"deleting", "gone"}

\* A job whose containers end, if every run of them does, is finished at some time
\* (docs/jobs.md:7, "ensures a container runs to completion"), also across a crash,
\* a lost write or a container that was removed.  The exception is a crash between
\* ContainerCreate and ContainerStart, or a failed start whose report is lost: nothing
\* ever starts that container (reconciler.go:216-218).
JobCompletes == WF_vars(Exit) => (<>Finished \/ <>[](cont.state = "created"))

\* A container that runs past activeDeadlineSeconds is terminated, or the job is
\* finished before, if startTime is known: a job whose first status write was lost
\* has none, and no deadline (reconciler.go:153).  Times beyond MaxTime are not reached.
DeadlineEnforced ==
    (/\ cont.state = "running" /\ job.start # Unset
     /\ spec.deadline # Unset /\ now + spec.deadline < MaxTime)
        ~> (cont.state # "running" \/ Finished)

\* A job that is deleted goes away, whatever the Docker engine answers.
DeletionCompletes == job.life = "deleting" ~> job.life = "gone"

\* The container of a finished job is removed after ttlSecondsAfterFinished,
\* also when the first attempts to remove it fail, unless the job is deleted.
TTLCleansUp ==
    (job.phase \in Terminal /\ spec.ttl # Unset /\ job.completion + spec.ttl <= MaxTime)
        ~> (cont.state = "none" \/ job.life \in {"deleting", "gone"})

-----------------------------------------------------------------------------
(* DockerJob implements JobContract. *)

Contract == INSTANCE JobContract WITH
    Codes <- ExitCodes,
    limit <- spec.backoffLimit,
    deadline <- IF spec.deadline = Unset THEN "no" ELSE "yes",
    runs <- starts,
    codes <- exits,
    result <- IF job.phase \in Terminal THEN job.phase ELSE "None",
    life <- IF job.life = "gone" THEN "gone" ELSE "there",
    mishaps <- slips,
    errors <- dockerErrs

\* Every step of the reconciler and its surroundings is one that JobContract allows:
\* runs stay within their budget and, unless something went wrong, end with the first
\* success and before the report; nothing runs for a job that is gone; the result is
\* reported once and with a reason, a success never as a failure, whatever interleaves
\* with syncJob's calls.
KeepsContract == Contract!Spec
=============================================================================
