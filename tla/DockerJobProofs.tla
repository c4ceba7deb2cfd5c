--------------------------- MODULE DockerJobProofs ---------------------------
(***************************************************************************)
(* RunsBounded, PhaseIsFinal, AttemptsCountRuns, KeepsContract and         *)
(* NoOrphan of DockerJob, for every spec, every set of exit codes and      *)
(* every number of faults.                                                 *)
(*                                                                         *)
(* RunsBounded is not inductive.  Budget below says what is left of the    *)
(* budget backoffLimit + 1 + slips at each point: how far status.attempts  *)
(* may lag behind the runs, when a missing container may still be replaced *)
(* and that a reconcile on a stale copy has paid its start in advance.     *)
(*                                                                         *)
(* That DockerJob implements JobContract needs more.  LifeInv: a job that  *)
(* is gone is not "active" in any copy, because the worker drops the       *)
(* finalizer only after the cache has shown it the deletion.  ReasonInv: a *)
(* result that is stored, cached or about to be written has a reason.      *)
(* LastInv: without mishaps the container of a run that ended with 0 stays *)
(* until the job is closed.  QuietInv: unless something went wrong nothing *)
(* runs once a result is known.                                            *)
(*                                                                         *)
(* LifeInv also gives NoOrphan: nothing can be created for a job that is   *)
(* gone.                                                                   *)
(***************************************************************************)
EXTENDS DockerJob, TLAPS

Live == job.life \in {"new", "active"} /\ job.phase \notin Terminal

\* The calls that lead to a start, and the calls of syncJob.
Starting == {"retry", "create", "recreate", "start", "restart"}
Syncing  == Starting \cup {"inspect", "stop", "kill", "write", "writeTTL"}

\* What the cache holds or will hold is a version the API server has stored.
Version(v) == v.rv <= job.rv /\ (v.rv = job.rv => v = job)
CacheInv == Version(seen) /\ \A i \in 1 .. Len(pending) : Version(pending[i])

\* How the worker's copy relates to the stored job: an outdated copy cannot be
\* written back, an up-to-date one only loses that by a deletion.
CopyInv ==
    /\ view = "stale" => loc.rv < job.rv
    /\ pc = "idle" => view = "fresh"
    /\ pc = "writeTTL" => loc.phase \in Terminal
    /\ view = "fresh" /\ pc \in Syncing =>
          /\ job.phase \notin Terminal
          /\ loc.rv <= job.rv
          /\ loc.rv = job.rv <=> job.life \in {"new", "active"}
          /\ pc # "write" => loc.attempts = job.attempts
    /\ view = "fresh" /\ pc \in {"addFinalizer", "finalize", "dropFinalizer"} =>
          /\ loc.rv <= job.rv
          /\ loc.rv = job.rv => loc = job
    /\ view = "fresh" /\ pc = "addFinalizer" /\ loc.rv = job.rv => job.life = "new"
    /\ view = "fresh" /\ pc \in {"finalize", "dropFinalizer"} =>
          job.life \in {"deleting", "gone"}

Limit == spec.backoffLimit + slips

Budget ==
    /\ starts <= Limit + 1
    /\ pc \in Starting => starts <= Limit
    /\ view = "stale" /\ pc # "write" => starts <= Limit
    /\ pc = "ttl" /\ Live => starts <= Limit
    /\ /\ Live \/ pc = "inspect"
       /\ cont.state = "none"
       /\ ~(view = "fresh" /\ pc = "write" /\ loc.phase \in Terminal)
       => starts <= Limit
    /\ Live /\ view = "fresh" /\ pc # "write" => starts <= job.attempts + slips
    /\ pc = "inspect" /\ view = "fresh" => starts <= job.attempts + slips
    /\ Live /\ view = "stale" /\ pc # "write" => starts + 1 <= job.attempts + slips
    /\ Live /\ view = "stale" /\ pc = "write" => starts <= job.attempts + slips
    /\ Live /\ view = "fresh" /\ pc = "write" =>
          /\ starts <= job.attempts + slips + 1
          /\ loc.phase \notin Terminal => starts <= loc.attempts + slips

IInv == TypeOK /\ CacheInv /\ CopyInv /\ Budget

-----------------------------------------------------------------------------
(* Types. *)

LEMMA CreatedType == Created \in Job
  BY Zenon DEF Created, Job, Lives, Phases, Unset

LEMMA BumpType ==
  ASSUME NEW o \in Job
  PROVE  Bump(o) \in Job
  BY DEF Bump, Job

LEMMA StoredType ==
  ASSUME NEW o \in Job
  PROVE  Bump(o) \in Job /\ \A l \in Lives : SetLife(o, l) \in Job
  <1>1. Bump(o) \in Job
    BY BumpType, Zenon
  <1>2. ASSUME NEW l \in Lives PROVE SetLife(o, l) \in Job
    <2>1. [o EXCEPT !.life = l] \in Job
      BY Zenon DEF Job
    <2>2. QED
      BY <2>1, BumpType, Zenon DEF SetLife
  <1>3. QED
    BY <1>1, <1>2, Zenon

LEMMA NextCallType ==
  ASSUME NEW o \in Job
  PROVE  AfterFinalizer(o) \in PCs /\ FirstCall(o) \in PCs
  BY Zenon DEF PCs, AfterFinalizer, FirstCall

LEMMA ContainerType ==
  /\ NoContainer \in Container
  /\ NewContainer \in Container
  BY Zenon DEF NoContainer, NewContainer, Container, Unset

LEMMA ExitedType ==
  ASSUME NEW c \in ExitCodes
  PROVE  [state |-> "exited", code |-> c] \in Container
  BY ExitCodesAssumption, Zenon DEF Container

LEMMA RunningType ==
  ASSUME NEW k \in Container
  PROVE  [k EXCEPT !.state = "running"] \in Container
  BY Zenon DEF Container

LEMMA StatusType ==
  ASSUME NEW o \in Job, now \in Nat, cont \in Container
  PROVE  /\ Fail(o) \in Job /\ Started(o) \in Job /\ Exited(o) \in Job
         /\ \A p \in Phases : SetPhase(o, p) \in Job
  <1>1. Fail(o) \in Job
    BY Zenon DEF Fail, Job, Phases, Terminal
  <1>2. Started(o) \in Job
    <2>1. Counted(o) \in Job
      BY DEF Counted, Job
    <2>2. QED
      BY <2>1, Zenon DEF Started, Unset, Job, Phases
  <1>3. Exited(o) \in Job
    BY Zenon DEF Exited, Container, Job
  <1>4. ASSUME NEW p \in Phases PROVE SetPhase(o, p) \in Job
    BY Zenon DEF SetPhase, Job
  <1>5. QED
    BY <1>1, <1>2, <1>3, <1>4, Zenon

LEMMA TypeInit == Init => TypeOK
  BY CreatedType, ContainerType DEF Init, TypeOK, PCs

LEMMA TypeNext == TypeOK /\ [Next]_vars => TypeOK'
  <1> SUFFICES ASSUME TypeOK, [Next]_vars PROVE TypeOK'
    OBVIOUS
  <1> USE DEF TypeOK, PCs, kube, worker, engine, Slip, DockerErr, Return, Refused
  <1> Fail(loc) \in Job /\ Started(loc) \in Job /\ Exited(loc) \in Job
    BY StatusType, Zenon
  <1>1. CASE Begin
    BY <1>1, NextCallType DEF Begin
  <1>2. CASE BeginGone
    BY <1>2, Zenon DEF BeginGone, vars
  <1>3. CASE AddFinalizer
    <2>1. SetLife(loc, "active") \in Job
      BY StoredType, Zenon DEF Lives
    <2>2. CASE Accepts /\ Store(loc') /\ loc' = SetLife(loc, "active") /\ pc' = AfterFinalizer(loc')
      <3>1. loc' \in Job /\ pc' \in PCs
        BY <2>1, <2>2, NextCallType, Zenon
      <3>2. job' \in Job /\ seen' \in Job /\ pending' \in Seq(Job)
        BY <2>2, <3>1 DEF Store
      <3>3. QED
        BY <1>3, <3>1, <3>2 DEF AddFinalizer
    <2>3. CASE Refused /\ Return
      BY <1>3, <2>3, CreatedType DEF AddFinalizer
    <2>4. QED
      BY <1>3, <2>2, <2>3, Zenon DEF AddFinalizer
  <1>4. CASE Finalize
    BY <1>4, ContainerType DEF Finalize, ForceRemove
  <1>5. CASE DropFinalizer
    BY <1>5, StoredType, CreatedType DEF DropFinalizer, Store, Lives
  <1>6. CASE InspectFails
    BY <1>6, CreatedType DEF InspectFails
  <1>7. CASE InspectMissing
    BY <1>7, Zenon DEF InspectMissing
  <1>8. CASE InspectRunning
    BY <1>8, StatusType, CreatedType, Zenon DEF InspectRunning, Phases
  <1>9. CASE InspectExited
    BY <1>9, StatusType, Zenon DEF InspectExited, Phases, Terminal
  <1>10. CASE InspectOther
    BY <1>10, CreatedType, Zenon DEF InspectOther
  <1>11. CASE RemoveForRetry
    BY <1>11, ContainerType DEF RemoveForRetry, ForceRemove
  <1>12. CASE CreateContainer
    BY <1>12, ContainerType DEF CreateContainer
  <1>13. CASE StartContainer
    BY <1>13, RunningType DEF StartContainer
  <1>14. CASE StopContainer
    BY <1>14, ExitedType DEF StopContainer
  <1>15. CASE KillContainer
    BY <1>15, ContainerType DEF KillContainer, ForceRemove
  <1>16. CASE WriteStatus
    BY <1>16, StoredType, CreatedType DEF WriteStatus, Store
  <1>17. CASE handleTTLCleanup
    BY <1>17, ContainerType, CreatedType DEF handleTTLCleanup, ForceRemove
  <1>18. CASE Exit
    BY <1>18, ExitedType DEF Exit
  <1>19. CASE ForeignRemove
    BY <1>19, ContainerType DEF ForeignRemove
  <1>20. CASE UserDelete
    BY <1>20, StoredType DEF UserDelete, Store, Lives
  <1>21. CASE Deliver
    BY <1>21 DEF Deliver
  <1>22. CASE Crash
    BY <1>22, CreatedType DEF Crash
  <1>23. CASE Tick
    BY <1>23 DEF Tick
  <1>24. CASE UNCHANGED vars
    BY <1>24, Zenon DEF vars
  <1>25. QED
    BY <1>1, <1>2, <1>3, <1>4, <1>5, <1>6, <1>7, <1>8, <1>9, <1>10, <1>11, <1>12, <1>13, Zenon,
       <1>14, <1>15, <1>16, <1>17, <1>18, <1>19, <1>20, <1>21, <1>22, <1>23, <1>24
       DEF Next, Reconcile, syncJob, Environment

\* Every variable keeps its type: in particular the status carries one of the
\* four phases and a natural number of attempts.
THEOREM Typing == Spec => []TypeOK
  BY TypeInit, TypeNext, PTL DEF Spec

-----------------------------------------------------------------------------
(* What the reconciler's writes change of a job. *)

LEMMA JobFields ==
  ASSUME NEW o \in Job
  PROVE  o.rv \in Nat /\ o.attempts \in Nat /\ o.life \in Lives /\ o.phase \in Phases
  BY Zenon DEF Job

LEMMA BumpFields ==
  ASSUME NEW o \in Job
  PROVE  /\ Bump(o).rv = o.rv + 1 /\ Bump(o).life = o.life
         /\ Bump(o).phase = o.phase /\ Bump(o).attempts = o.attempts
  BY Zenon DEF Bump, Job

LEMMA SetLifeFields ==
  ASSUME NEW o \in Job, NEW l \in Lives
  PROVE  /\ SetLife(o, l).rv = o.rv + 1 /\ SetLife(o, l).life = l
         /\ SetLife(o, l).phase = o.phase /\ SetLife(o, l).attempts = o.attempts
  BY Zenon DEF SetLife, Bump, Job

LEMMA StatusFields ==
  ASSUME NEW o \in Job
  PROVE  /\ Fail(o).rv = o.rv /\ Fail(o).attempts = o.attempts /\ Fail(o).phase = "Failed"
         /\ Exited(o).rv = o.rv /\ Exited(o).attempts = o.attempts
         /\ Started(o).rv = o.rv /\ Started(o).attempts = o.attempts + 1
         /\ Started(o).phase = "Running"
  <1>1. Fail(o).rv = o.rv /\ Fail(o).attempts = o.attempts /\ Fail(o).phase = "Failed"
    BY Zenon DEF Fail, Job
  <1>2. Exited(o).rv = o.rv /\ Exited(o).attempts = o.attempts
    BY Zenon DEF Exited, Job
  <1>3. /\ Started(o).rv = o.rv /\ Started(o).attempts = o.attempts + 1
        /\ Started(o).phase = "Running"
    BY Zenon DEF Started, Counted, Job
  <1>4. QED
    BY <1>1, <1>2, <1>3, Zenon

LEMMA PhaseFields ==
  ASSUME NEW o \in Job, NEW p \in Phases
  PROVE  /\ SetPhase(o, p).rv = o.rv
         /\ SetPhase(o, p).attempts = o.attempts
         /\ SetPhase(o, p).phase = p
  BY Zenon DEF SetPhase, Job

-----------------------------------------------------------------------------
(* The cache. *)

\* A write makes every version stored before it an older one.
LEMMA StoreKeepsVersions ==
  ASSUME TypeOK, CacheInv, NEW v \in Job, v.rv = job.rv + 1, Store(v)
  PROVE  CacheInv'
  <1> USE DEF TypeOK, Store
  <1>1. job.rv \in Nat /\ seen.rv \in Nat
    BY JobFields, Zenon
  <1>2. Version(seen)'
    BY <1>1 DEF CacheInv, Version
  <1>3. ASSUME NEW i \in 1 .. Len(pending') PROVE Version(pending[i])'
    <2>1. CASE i = Len(pending) + 1
      <3>1. pending'[i] = v
        BY <2>1
      <3>2. QED
        BY <3>1, <1>1 DEF Version
    <2>2. CASE i \in 1 .. Len(pending)
      <3>1. pending'[i] = pending[i] /\ pending[i] \in Job
        BY <2>2
      <3>2. pending[i].rv \in Nat
        BY <3>1, JobFields, Zenon
      <3>3. QED
        BY <3>1, <3>2, <2>2, <1>1 DEF CacheInv, Version
    <2>3. QED
      BY <2>1, <2>2
  <1>4. QED
    BY <1>2, <1>3, Zenon DEF CacheInv

LEMMA CacheNext == TypeOK /\ CacheInv /\ [Next]_vars => CacheInv'
  <1> SUFFICES ASSUME TypeOK, CacheInv, [Next]_vars PROVE CacheInv'
    OBVIOUS
  <1>1. CASE UNCHANGED kube
    BY <1>1, Zenon DEF kube, CacheInv, Version
  <1>2. ASSUME NEW v \in {loc, job}, NEW l \in Lives, Accepts \/ v = job, Store(SetLife(v, l))
        PROVE  CacheInv'
    <2>1. v \in Job /\ SetLife(v, l) \in Job
      BY StoredType, Zenon DEF TypeOK
    <2>2. SetLife(v, l).rv = job.rv + 1
      BY <1>2, <2>1, SetLifeFields DEF Accepts
    <2>3. QED
      BY <1>2, <2>1, <2>2, StoreKeepsVersions, Zenon
  <1>3. CASE AddFinalizer
    BY <1>1, <1>2, <1>3, Zenon DEF AddFinalizer, Refused, Lives
  <1>4. CASE DropFinalizer
    BY <1>1, <1>2, <1>4, Zenon DEF DropFinalizer, Refused, Lives
  <1>5. CASE UserDelete
    BY <1>2, <1>5, Zenon DEF UserDelete, Lives
  <1>6. CASE WriteStatus
    <2>1. CASE Accepts /\ Store(Bump(loc))
      BY <2>1, BumpType, BumpFields, StoreKeepsVersions, Zenon DEF Accepts, TypeOK
    <2>2. QED
      BY <1>1, <1>6, <2>1, Zenon DEF WriteStatus, Refused
  <1>7. CASE Deliver
    <2>1. Version(seen)'
      BY <1>7 DEF Deliver, CacheInv, Version, TypeOK
    <2>2. ASSUME NEW i \in 1 .. Len(pending') PROVE Version(pending[i])'
      <3>1. i + 1 \in 1 .. Len(pending) /\ pending'[i] = pending[i + 1]
        BY <1>7 DEF Deliver, TypeOK
      <3>2. QED
        BY <3>1, <1>7, Zenon DEF Deliver, CacheInv, Version
    <2>3. QED
      BY <2>1, <2>2, Zenon DEF CacheInv
  <1>8. CASE Crash
    <2>1. job.rv \in Nat
      BY JobFields, Zenon DEF TypeOK
    <2>2. QED
      BY <1>8, <2>1 DEF Crash, CacheInv, Version
  <1>9. CASE UNCHANGED vars
    BY <1>1, <1>9, Zenon DEF vars
  <1>10. QED
    BY <1>1, <1>3, <1>4, <1>5, <1>6, <1>7, <1>8, <1>9, Zenon
       DEF Next, Reconcile, syncJob, Environment, Begin, BeginGone, Finalize, InspectFails,
           InspectMissing, InspectRunning, InspectExited, InspectOther, RemoveForRetry,
           CreateContainer, StartContainer, StopContainer, KillContainer, handleTTLCleanup,
           Exit, ForeignRemove, Tick, vars

-----------------------------------------------------------------------------
(* The worker's copy. *)

LEMMA CopyNext == TypeOK /\ CacheInv /\ CopyInv /\ [Next]_vars => CopyInv'
  <1> SUFFICES ASSUME TypeOK, CacheInv, CopyInv, [Next]_vars PROVE CopyInv'
    OBVIOUS
  <1> /\ job \in Job /\ seen \in Job /\ loc \in Job
      /\ job.rv \in Nat /\ seen.rv \in Nat /\ loc.rv \in Nat
      /\ job.attempts \in Nat /\ loc.attempts \in Nat
      /\ job.life \in Lives /\ seen.life \in Lives
      /\ view \in {"fresh", "stale"}
    BY JobFields, Zenon DEF TypeOK
  <1> USE DEF CopyInv, Syncing, Starting, Terminal, Lives, kube, worker, engine, Return
  <1>1. CASE Begin
    BY <1>1 DEF Begin, FirstCall, AfterFinalizer, CacheInv, Version
  <1>2. CASE BeginGone
    BY <1>2, Zenon DEF BeginGone, vars
  <1>3. CASE AddFinalizer
    BY <1>3, SetLifeFields DEF AddFinalizer, AfterFinalizer, Store, Refused, Accepts
  <1>4. CASE Finalize
    BY <1>4, Zenon DEF Finalize
  <1>5. CASE DropFinalizer
    BY <1>5, Zenon DEF DropFinalizer, Store, Refused
  <1>6. CASE InspectFails
    BY <1>6, Zenon DEF InspectFails
  <1>7. CASE InspectMissing
    BY <1>7, Zenon DEF InspectMissing
  <1>8. CASE InspectRunning
    BY <1>8, PhaseFields DEF InspectRunning, Phases
  <1>9. CASE InspectExited
    <2>1. Exited(loc) \in Job /\ Exited(loc).rv = loc.rv /\ Exited(loc).attempts = loc.attempts
      BY StatusType, StatusFields, Zenon DEF TypeOK
    <2>2. ASSUME NEW p \in Terminal
          PROVE  /\ SetPhase(Exited(loc), p).rv = loc.rv
                 /\ SetPhase(Exited(loc), p).attempts = loc.attempts
                 /\ SetPhase(Exited(loc), p).phase = p
      BY <2>1, PhaseFields, Zenon DEF Phases
    <2>3. QED
      BY <1>9, <2>1, <2>2, Zenon DEF InspectExited
  <1>10. CASE InspectOther
    BY <1>10, Zenon DEF InspectOther
  <1>11. CASE RemoveForRetry
    BY <1>11, Zenon DEF RemoveForRetry
  <1>12. CASE CreateContainer
    BY <1>12, StatusFields, Zenon DEF CreateContainer
  <1>13. CASE StartContainer
    BY <1>13, StatusFields DEF StartContainer
  <1>14. CASE StopContainer
    BY <1>14, Zenon DEF StopContainer
  <1>15. CASE KillContainer
    BY <1>15, StatusFields, Zenon DEF KillContainer
  <1>16. CASE WriteStatus
    BY <1>16, BumpFields DEF WriteStatus, Store, Refused, Accepts
  <1>17. CASE handleTTLCleanup
    BY <1>17, Zenon DEF handleTTLCleanup
  <1>18. CASE Exit
    BY <1>18, Zenon DEF Exit
  <1>19. CASE ForeignRemove
    BY <1>19, Zenon DEF ForeignRemove
  <1>20. CASE UserDelete
    <2>1. /\ job'.rv = job.rv + 1 /\ job'.phase = job.phase /\ job'.attempts = job.attempts
          /\ job'.life \in {"deleting", "gone"} /\ job.life \in {"new", "active"}
      BY <1>20, SetLifeFields, Zenon DEF UserDelete, Store
    <2>2. UNCHANGED <<spec, pc, loc, view, cont, starts, slips>>
      BY <1>20, Zenon DEF UserDelete
    <2>3. QED
      BY <2>1, <2>2
  <1>21. CASE Deliver
    BY <1>21, Zenon DEF Deliver
  <1>22. CASE Crash
    BY <1>22, Zenon DEF Crash
  <1>23. CASE Tick
    BY <1>23, Zenon DEF Tick
  <1>24. CASE UNCHANGED vars
    BY <1>24, Zenon DEF vars
  <1>25. QED
    BY <1>1, <1>2, <1>3, <1>4, <1>5, <1>6, <1>7, <1>8, <1>9, <1>10, <1>11, <1>12, <1>13, Zenon,
       <1>14, <1>15, <1>16, <1>17, <1>18, <1>19, <1>20, <1>21, <1>22, <1>23, <1>24
       DEF Next, Reconcile, syncJob, Environment

-----------------------------------------------------------------------------
(* The budget. *)

\* What is left of the budget when a start is in nobody's hands.
LEMMA Room ==
  ASSUME starts' <= Limit', starts' <= Limit' + 1, pc' # "write",
         (Live' \/ pc' = "inspect") /\ view' = "fresh" => starts' <= job'.attempts + slips',
         Live' /\ view' = "stale" => starts' + 1 <= job'.attempts + slips'
  PROVE  Budget'
  BY Zenon DEF Budget

\* An exit leaves the object and the budget alone, and the container there.
LEMMA ExitFrame ==
  ASSUME Exit
  PROVE  /\ UNCHANGED <<spec, job, pc, loc, view, starts, slips>>
         /\ cont'.state # "none"
  BY DEF Exit, kube, worker

LEMMA BudgetFrame ==
  ASSUME Budget, UNCHANGED <<spec, job, pc, loc, view, starts, slips>>, cont'.state # "none"
  PROVE  Budget'
  BY Zenon DEF Budget, Limit, Live

LEMMA BudgetNext == TypeOK /\ CacheInv /\ CopyInv /\ Budget /\ [Next]_vars => Budget'
  <1> SUFFICES ASSUME TypeOK, CacheInv, CopyInv, Budget, [Next]_vars PROVE Budget'
    OBVIOUS
  <1> /\ job \in Job /\ seen \in Job /\ loc \in Job
      /\ job.rv \in Nat /\ seen.rv \in Nat /\ loc.rv \in Nat
      /\ job.attempts \in Nat /\ loc.attempts \in Nat
      /\ job.life \in Lives /\ seen.life \in Lives
      /\ view \in {"fresh", "stale"} /\ starts \in Nat /\ slips \in Nat
      /\ spec.backoffLimit \in Nat
    BY JobFields, SpecsAssumption, Zenon DEF TypeOK
  <1> USE DEF CopyInv, Budget, Limit, Live, Syncing, Starting, Terminal, Lives, kube, worker, engine, Return, Slip
  <1>1. CASE Begin
    <2>1. /\ pc = "idle" /\ seen.life # "gone" /\ pc' = FirstCall(seen)
          /\ job' = job /\ starts' = starts /\ cont' = cont /\ spec' = spec
      BY <1>1, Zenon DEF Begin
    <2>2. /\ pc' \in {"finalize", "addFinalizer", "ttl", "inspect"}
          /\ pc' = "ttl" => seen.phase \in Terminal
          /\ pc' = "inspect" => seen.life = "active" /\ seen.phase \notin Terminal
      BY <2>1, Zenon DEF FirstCall, AfterFinalizer
    <2>3. CASE seen.rv = job.rv /\ view' = "fresh" /\ UNCHANGED slips
      <3>1. seen = job
        BY <2>3, Zenon DEF CacheInv, Version
      <3>2. Live /\ cont.state = "none" => starts <= Limit
        BY <2>1, Zenon
      <3>3. Live' = Live /\ Limit' = Limit
        BY <2>1, <2>3, Zenon
      <3>4. (pc' = "inspect" => Live) /\ (pc' = "ttl" => ~Live)
        BY <2>2, <3>1, Zenon
      <3>5. QED
        BY <2>1, <2>2, <2>3, <3>2, <3>3, <3>4, Zenon
    <2>4. CASE view' = "stale" /\ Slip
      <3>1. Limit' = Limit + 1 /\ Limit \in Nat
        BY <2>1, <2>4
      <3>2. starts' <= Limit'
        BY <2>1, <3>1, Zenon
      <3>3. starts' <= Limit' + 1
        BY <2>1, <3>1
      <3>4. Live' => starts' + 1 <= job'.attempts + slips'
        BY <2>1, <2>4
      <3>5. QED
        BY <2>2, <2>4, <3>2, <3>3, <3>4, Room, Zenon
    <2>5. QED
      BY <1>1, <2>3, <2>4, Zenon DEF Begin
  <1>2. CASE BeginGone
    BY <1>2, Zenon DEF BeginGone, vars
  <1>3. CASE AddFinalizer
    <2>1. /\ SetLife(loc, "active").rv = loc.rv + 1
          /\ SetLife(loc, "active").life = "active"
          /\ SetLife(loc, "active").phase = loc.phase
          /\ SetLife(loc, "active").attempts = loc.attempts
      BY SetLifeFields, Zenon
    <2>2. CASE Refused /\ Return
      BY <1>3, <2>2 DEF AddFinalizer, Refused
    <2>3. CASE Accepts /\ ~Return
      <3>1. view = "fresh" /\ loc = job /\ job.life = "new"
        BY <1>3, <2>3 DEF AddFinalizer, Accepts
      <3>2. QED
        BY <1>3, <2>1, <2>3, <3>1, Zenon DEF AddFinalizer, AfterFinalizer, Store
    <2>4. QED
      BY <1>3, <2>2, <2>3, Zenon DEF AddFinalizer, AfterFinalizer
  <1>4. CASE Finalize
    BY <1>4, Zenon DEF Finalize, ForceRemove
  <1>5. CASE DropFinalizer
    <2>1. /\ starts' = starts /\ cont' = cont /\ spec' = spec
          /\ pc = "dropFinalizer" /\ pc' = "idle" /\ view' = "fresh"
      BY <1>5, Zenon DEF DropFinalizer
    <2>2. CASE Store(SetLife(loc, "gone")) /\ UNCHANGED slips
      <3>1. job'.life = "gone"
        BY <2>2, SetLifeFields, Zenon DEF Store
      <3>2. QED
        BY <2>1, <2>2, <3>1, Zenon
    <2>3. CASE Refused
      <3>1. job' = job /\ (slips' = slips \/ slips' = slips + 1)
        BY <2>3, Zenon DEF Refused
      <3>2. QED
        BY <2>1, <3>1
    <2>4. QED
      BY <1>5, <2>2, <2>3, Zenon DEF DropFinalizer
  <1>6. CASE InspectFails
    BY <1>6 DEF InspectFails
  <1>7. CASE InspectMissing
    BY <1>7, Zenon DEF InspectMissing
  <1>8. CASE InspectRunning
    BY <1>8, PhaseFields DEF InspectRunning, Phases
  <1>9. CASE InspectExited
    <2>1. /\ UNCHANGED <<job, spec, view, cont, starts, slips>>
          /\ pc = "inspect" /\ cont.state = "exited" /\ pc' \in {"writeTTL", "retry"}
          /\ pc' = "retry" => loc.attempts <= spec.backoffLimit
      BY <1>9, Zenon DEF InspectExited, CanRetry
    <2>2. view = "fresh" => starts <= loc.attempts + slips
      BY <2>1, Zenon
    <2>3. pc' = "retry" => starts <= Limit
      <3>1. CASE view = "fresh"
        BY <2>1, <2>2, <3>1
      <3>2. CASE view = "stale"
        BY <2>1, <3>2, Zenon
      <3>3. QED
        BY <3>1, <3>2, Zenon
    <2>4. Live' = Live /\ Limit' = Limit
      BY <2>1, Zenon
    <2>5. QED
      BY <2>1, <2>3, <2>4, Zenon
  <1>10. CASE InspectOther
    BY <1>10 DEF InspectOther
  <1>11. CASE RemoveForRetry
    BY <1>11, Zenon DEF RemoveForRetry, ForceRemove
  <1>12. CASE CreateContainer
    BY <1>12, StatusFields DEF CreateContainer, NewContainer
  <1>13. CASE StartContainer
    <2>1. /\ Fail(loc).phase = "Failed"
          /\ Started(loc).phase = "Running"
          /\ Started(loc).attempts = loc.attempts + 1
      BY StatusFields, Zenon
    <2>2. cont.state = "created" \/ cont.state = "none"
      BY <1>13, Zenon DEF StartContainer
    <2>3. [cont EXCEPT !.state = "running"].state = "running"
      BY Zenon DEF TypeOK, Container
    <2>4. CASE starts' = starts
      BY <1>13, <2>1, <2>4 DEF StartContainer
    <2>5. CASE starts' = starts + 1
      <3>0. pc \in {"start", "restart"} /\ pc' = "write"
        BY <1>13, Zenon DEF StartContainer
      <3>1. starts <= Limit /\ cont'.state = "running"
        <4>1. starts <= Limit
          BY <3>0, Zenon
        <4>2. cont' = [cont EXCEPT !.state = "running"]
          BY <1>13, <2>5 DEF StartContainer
        <4>3. QED
          BY <4>1, <4>2, <2>3, Zenon
      <3>2. CASE view = "stale"
        BY <1>13, <2>5, <3>0, <3>1, <3>2 DEF StartContainer
      <3>3. CASE view = "fresh" /\ loc' = Started(loc)
        BY <1>13, <2>1, <2>5, <3>0, <3>1, <3>3 DEF StartContainer
      <3>4. CASE view = "fresh" /\ loc' = Fail(loc)
        BY <1>13, <2>1, <2>5, <3>0, <3>1, <3>4 DEF StartContainer
      <3>5. QED
        BY <1>13, <3>2, <3>3, <3>4, Zenon DEF StartContainer
    <2>6. QED
      BY <1>13, <2>4, <2>5, Zenon DEF StartContainer
  <1>14. CASE StopContainer
    BY <1>14 DEF StopContainer
  <1>15. CASE KillContainer
    BY <1>15, StatusFields DEF KillContainer, ForceRemove
  <1>16. CASE WriteStatus
    <2>1. CASE Accepts /\ Store(Bump(loc)) /\ UNCHANGED slips
      <3>1. /\ job'.phase = loc.phase /\ job'.attempts = loc.attempts
            /\ job'.life = loc.life
        BY <2>1, BumpFields, Zenon DEF Store
      <3>2. starts' = starts /\ cont' = cont /\ spec' = spec /\ slips' = slips
        BY <1>16, <2>1, Zenon DEF WriteStatus
      <3>3. view = "fresh" /\ loc.rv = job.rv
        BY <2>1 DEF Accepts
      <3>4. \/ pc = "write" /\ pc' = "idle" /\ view' = "fresh"
            \/ pc = "writeTTL" /\ pc' = "ttl" /\ view' = view
        BY <1>16, Zenon DEF WriteStatus
      <3>5. CASE pc = "write"
        BY <3>1, <3>2, <3>3, <3>4, <3>5, Zenon
      <3>6. CASE pc = "writeTTL"
        BY <3>1, <3>2, <3>3, <3>4, <3>6, Zenon
      <3>7. QED
        BY <3>4, <3>5, <3>6, Zenon
    <2>2. CASE Refused /\ ~Accepts
      <3>1. UNCHANGED <<job, spec, cont, starts, slips>> /\ pc \in {"write", "writeTTL"}
        BY <1>16, <2>2, Zenon DEF WriteStatus, Refused
      <3>2. view = "stale" \/ ~Live
        BY <2>2, <3>1, Zenon DEF Accepts
      <3>3. \/ pc = "write" /\ pc' = "idle" /\ view' = "fresh"
            \/ pc = "writeTTL" /\ pc' = "ttl" /\ view' = view /\ loc' = loc
        BY <1>16, Zenon DEF WriteStatus
      <3>4. CASE pc = "write"
        BY <3>1, <3>2, <3>3, <3>4, Zenon
      <3>5. CASE pc = "writeTTL"
        BY <3>1, <3>2, <3>3, <3>5, Zenon
      <3>6. QED
        BY <3>1, <3>4, <3>5, Zenon
    <2>3. CASE Refused /\ Accepts
      <3>1. UNCHANGED <<job, spec, cont, starts>> /\ slips' = slips + 1
        BY <1>16, <2>3, Zenon DEF WriteStatus, Refused
      <3>2. view = "fresh" /\ pc' \in {"idle", "ttl"} /\ view' = "fresh"
        BY <1>16, <2>3 DEF WriteStatus, Accepts
      <3>3. Limit' = Limit + 1 /\ Limit \in Nat
        BY <3>1
      <3>4. starts' <= Limit' /\ starts' <= Limit' + 1
        BY <3>1, <3>3
      <3>5. Live' => starts' <= job'.attempts + slips'
        BY <3>1, <3>2
      <3>6. QED
        BY <3>2, <3>4, <3>5, Room, Zenon
    <2>4. QED
      BY <1>16, <2>1, <2>2, <2>3, Zenon DEF WriteStatus
  <1>17. CASE handleTTLCleanup
    BY <1>17 DEF handleTTLCleanup, ForceRemove
  <1>18. CASE Exit
    BY <1>18, ExitFrame, BudgetFrame, Zenon
  <1>19. CASE ForeignRemove
    BY <1>19 DEF ForeignRemove
  <1>20. CASE UserDelete
    <2>1. /\ job'.rv = job.rv + 1 /\ job'.phase = job.phase /\ job'.attempts = job.attempts
          /\ job'.life \in {"deleting", "gone"} /\ job.life \in {"new", "active"}
      BY <1>20, SetLifeFields, Zenon DEF UserDelete, Store
    <2>2. UNCHANGED <<spec, pc, loc, view, cont, starts, slips>>
      BY <1>20, Zenon DEF UserDelete
    <2>3. QED
      BY <2>1, <2>2, Zenon
  <1>21. CASE Deliver
    BY <1>21, Zenon DEF Deliver
  <1>22. CASE Crash
    <2>1. /\ job' = job /\ starts' = starts /\ cont' = cont /\ spec' = spec
          /\ slips' = slips + 1 /\ pc' = "idle" /\ view' = "fresh"
      BY <1>22, Zenon DEF Crash
    <2>2. Limit' = Limit + 1 /\ Limit \in Nat
      BY <2>1
    <2>3. starts' <= Limit' /\ starts' <= Limit' + 1
      BY <2>1, <2>2
    <2>4. Live' => Live
      BY <2>1, Zenon
    <2>5. Live => starts <= job.attempts + slips + 1
      <3>1. CASE view = "fresh"
        BY <3>1
      <3>2. CASE view = "stale"
        BY <3>2
      <3>3. QED
        BY <3>1, <3>2, Zenon
    <2>6. Live' => starts' <= job'.attempts + slips'
      BY <2>1, <2>4, <2>5
    <2>7. QED
      BY <2>1, <2>3, <2>6, Room, Zenon
  <1>23. CASE Tick
    BY <1>23, Zenon DEF Tick
  <1>24. CASE UNCHANGED vars
    BY <1>24, Zenon DEF vars
  <1>25. QED
    BY <1>1, <1>2, <1>3, <1>4, <1>5, <1>6, <1>7, <1>8, <1>9, <1>10, <1>11, <1>12, <1>13, Zenon,
       <1>14, <1>15, <1>16, <1>17, <1>18, <1>19, <1>20, <1>21, <1>22, <1>23, <1>24
       DEF Next, Reconcile, syncJob, Environment

-----------------------------------------------------------------------------
(* The theorems. *)

LEMMA InvInit == Init => IInv
  <1> SUFFICES ASSUME Init PROVE IInv
    OBVIOUS
  <1>1. TypeOK
    BY TypeInit, Zenon
  <1>2. spec.backoffLimit \in Nat
    BY SpecsAssumption, Zenon DEF Init
  <1>3. /\ job.rv = 0 /\ job.attempts = 0 /\ job.life = "new" /\ job.phase = "None"
        /\ seen = job /\ loc = job /\ pending = <<>>
    BY Zenon DEF Init, Created
  <1>4. CacheInv
    BY <1>3 DEF CacheInv, Version
  <1>5. CopyInv
    BY <1>3, Zenon DEF Init, CopyInv, Syncing, Starting
  <1>6. Budget
    BY <1>2, <1>3 DEF Init, Budget, Limit, Starting
  <1>7. QED
    BY <1>1, <1>4, <1>5, <1>6, Zenon DEF IInv

LEMMA InvNext == IInv /\ [Next]_vars => IInv'
  BY TypeNext, CacheNext, CopyNext, BudgetNext, Zenon DEF IInv

\* The inductive invariant holds of every state syncJob and its surroundings reach.
THEOREM Invariance == Spec => []IInv
  BY InvInit, InvNext, PTL DEF Spec

\* Whatever fails and whenever: the reconciler starts a job's container at most
\* once, plus backoffLimit times, plus once for each mishap.
THEOREM RunsAreBounded == Spec => []RunsBounded
  <1>1. IInv => RunsBounded
    <2> SUFFICES ASSUME IInv PROVE RunsBounded
      OBVIOUS
    <2>1. spec.backoffLimit \in Nat /\ slips \in Nat /\ starts \in Nat
      BY SpecsAssumption, Zenon DEF IInv, TypeOK
    <2>2. QED
      BY <2>1 DEF IInv, Budget, Limit, RunsBounded
  <1>2. QED
    BY <1>1, Invariance, PTL

\* A job that has succeeded or failed keeps its phase: every write that could
\* change it comes from a copy the API server no longer accepts.
THEOREM FinalPhase == Spec => PhaseIsFinal
  <1>1. IInv /\ [Next]_vars => [job.phase \in Terminal => job'.phase = job.phase]_vars
    <2> SUFFICES ASSUME IInv, [Next]_vars, job.phase \in Terminal
                 PROVE  job'.phase = job.phase
      BY Zenon DEF vars, kube
    <2> job \in Job /\ loc \in Job /\ job.rv \in Nat /\ view \in {"fresh", "stale"}
      BY JobFields, Zenon DEF IInv, TypeOK
    <2> USE DEF IInv, CopyInv, Syncing
    <2>1. CASE UNCHANGED job
      BY <2>1, Zenon
    <2>2. CASE AddFinalizer
      <3>1. SetLife(loc, "active").phase = loc.phase
        BY SetLifeFields, Zenon DEF Lives
      <3>2. QED
        BY <2>1, <2>2, <3>1 DEF AddFinalizer, Store, Refused, Accepts, kube
    <2>3. CASE DropFinalizer
      <3>1. SetLife(loc, "gone").phase = loc.phase
        BY SetLifeFields, Zenon DEF Lives
      <3>2. QED
        BY <2>1, <2>3, <3>1 DEF DropFinalizer, Store, Refused, Accepts, kube
    <2>4. CASE WriteStatus
      BY <2>1, <2>4 DEF WriteStatus, Store, Refused, Accepts, kube
    <2>5. CASE UserDelete
      BY <2>5, SetLifeFields, Zenon DEF UserDelete, Store, Lives
    <2>6. QED
      BY <2>1, <2>2, <2>3, <2>4, <2>5, Zenon
         DEF Next, Reconcile, syncJob, Environment, Begin, BeginGone, Finalize, InspectFails,
             InspectMissing, InspectRunning, InspectExited, InspectOther, RemoveForRetry,
             CreateContainer, StartContainer, StopContainer, KillContainer, handleTTLCleanup,
             Exit, ForeignRemove, Deliver, Crash, Tick, kube, vars
  <1>2. QED
    BY <1>1, Invariance, PTL DEF Spec, PhaseIsFinal

-----------------------------------------------------------------------------
(* The attempts. *)

\* While nothing has gone wrong no copy is outdated, and a job that is not being
\* deleted has counted every run, if not in the stored status then in the one that
\* is about to be written.
Tally ==
    slips = 0 /\ dockerErrs = 0 =>
        /\ view = "fresh"
        /\ job.life \in {"new", "active"} =>
              starts = (IF pc = "write" THEN loc ELSE job).attempts

LEMMA TallyNext == IInv /\ Tally /\ [Next]_vars => Tally'
  <1> SUFFICES ASSUME IInv, Tally, [Next]_vars PROVE Tally'
    OBVIOUS
  <1>0. /\ job \in Job /\ seen \in Job /\ loc \in Job
        /\ job.attempts \in Nat /\ loc.attempts \in Nat
        /\ slips \in Nat /\ dockerErrs \in Nat /\ starts \in Nat
        /\ cont \in Container /\ now \in Nat /\ CopyInv /\ view \in {"fresh", "stale"}
    BY JobFields, Zenon DEF IInv, TypeOK
  <1>1. CASE Exit \/ Tick \/ Deliver \/ ForeignRemove \/ BeginGone \/ UNCHANGED vars
    <2>1. UNCHANGED <<job, loc, pc, view, starts, dockerErrs>> /\ slips' \in {slips, slips + 1}
      BY <1>1, Zenon DEF Exit, Tick, Deliver, ForeignRemove, BeginGone, vars, kube, worker, engine, Slip
    <2> QED
      BY <1>0, <2>1 DEF Tally
  <1>2. CASE Begin
    <2>1. UNCHANGED <<job, starts, dockerErrs>> /\ pc = "idle" /\ pc' # "write"
      BY <1>2, Zenon DEF Begin, FirstCall, AfterFinalizer, kube, engine
    <2>2. \/ view' = "fresh" /\ slips' = slips
          \/ slips' = slips + 1
      BY <1>2, Zenon DEF Begin, Slip
    <2> QED
      BY <1>0, <2>1, <2>2 DEF Tally
  <1>3. CASE Crash
    <2>1. slips' = slips + 1
      BY <1>3, Zenon DEF Crash, Slip
    <2> QED
      BY <1>0, <2>1 DEF Tally
  <1>4. CASE UserDelete
    <2>1. job'.life \in {"gone", "deleting"}
      BY <1>0, <1>4, SetLifeFields, Zenon DEF UserDelete, Store, Lives
    <2>2. UNCHANGED <<view, slips, dockerErrs>>
      BY <1>4, Zenon DEF UserDelete, worker
    <2> QED
      BY <2>1, <2>2, Zenon DEF Tally
  <1>5. CASE AddFinalizer \/ DropFinalizer
    <2>1. /\ UNCHANGED <<starts, dockerErrs>> /\ slips' \in {slips, slips + 1} /\ pc # "write"
          /\ view' \in {view, "fresh"} /\ pc' # "write"
      BY <1>5, Zenon DEF AddFinalizer, DropFinalizer, engine, Refused, Slip, Return, AfterFinalizer
    <2>2. CASE UNCHANGED job
      BY <1>0, <2>1, <2>2 DEF Tally
    <2>3. CASE Accepts /\ AddFinalizer /\ Store(SetLife(loc, "active"))
      <3>1. job'.attempts = loc.attempts
        BY <1>0, <2>3, SetLifeFields, Zenon DEF Store, Lives
      <3>2. view = "fresh" => loc = job /\ job.life = "new"
        BY <1>0, <2>3, Zenon DEF CopyInv, Accepts, AddFinalizer
      <3> QED
        BY <1>0, <2>1, <3>1, <3>2 DEF Tally
    <2>4. CASE Store(SetLife(loc, "gone"))
      <3>1. job'.life = "gone"
        BY <1>0, <2>4, SetLifeFields, Zenon DEF Store, Lives
      <3> QED
        BY <1>0, <2>1, <3>1 DEF Tally
    <2> QED
      BY <1>5, <2>2, <2>3, <2>4, Zenon DEF AddFinalizer, DropFinalizer, Refused, kube
  <1>6. CASE WriteStatus
    <2>1. /\ UNCHANGED <<starts, dockerErrs>> /\ pc \in {"write", "writeTTL"}
          /\ view' \in {view, "fresh"} /\ pc' # "write"
      BY <1>6, Zenon DEF WriteStatus, engine, Return
    <2>2. CASE Accepts /\ Store(Bump(loc)) /\ UNCHANGED slips
      <3>1. job'.attempts = loc.attempts /\ job'.life = loc.life
        BY <1>0, <2>2, BumpFields, Zenon DEF Store
      <3>2. /\ view = "fresh" => job.life \in {"new", "active"}
            /\ view = "fresh" /\ pc = "writeTTL" => loc.attempts = job.attempts
        BY <1>0, <2>1, <2>2, Zenon DEF CopyInv, Accepts, Syncing
      <3> QED
        BY <1>0, <2>1, <2>2, <3>1, <3>2, Zenon DEF Tally
    <2>3. CASE Refused /\ ~Accepts
      <3>1. UNCHANGED <<job, slips>>
        BY <2>3, Zenon DEF Refused, kube
      <3>2. view = "fresh" => job.life \notin {"new", "active"}
        BY <1>0, <2>1, <2>3, Zenon DEF CopyInv, Accepts, Syncing
      <3> QED
        BY <1>0, <2>1, <3>1, <3>2, Zenon DEF Tally
    <2>4. CASE Refused /\ Accepts
      <3>1. slips' = slips + 1
        BY <2>4, Zenon DEF Refused, Slip
      <3> QED
        BY <1>0, <3>1 DEF Tally
    <2> QED
      BY <1>6, <2>2, <2>3, <2>4, Zenon DEF WriteStatus
  <1>7. CASE StartContainer
    <2>1. /\ UNCHANGED <<job, view, slips>> /\ pc \in {"start", "restart"} /\ pc' = "write"
          /\ dockerErrs' \in {dockerErrs, dockerErrs + 1}
      BY <1>7, Zenon DEF StartContainer, kube, DockerErr
    <2>2. view = "fresh" => loc.attempts = job.attempts
      BY <1>0, <2>1, Zenon DEF CopyInv, Syncing, Starting
    <2>3. \/ starts' = starts + 1 /\ loc'.attempts = loc.attempts + 1
          \/ starts' = starts /\ loc'.attempts = loc.attempts
          \/ dockerErrs' = dockerErrs + 1
      BY <1>0, <1>7, StatusFields, Zenon DEF StartContainer, DockerErr
    <2> QED
      BY <1>0, <2>1, <2>2, <2>3 DEF Tally
  <1>8. CASE Finalize \/ handleTTLCleanup \/ RemoveForRetry \/ StopContainer
             \/ InspectFails \/ InspectMissing \/ InspectOther
    <2>1. /\ UNCHANGED <<job, starts, slips>> /\ pc # "write" /\ pc' # "write"
          /\ dockerErrs' \in {dockerErrs, dockerErrs + 1} /\ view' \in {view, "fresh"}
      BY <1>8, Zenon DEF Finalize, handleTTLCleanup, RemoveForRetry, StopContainer, InspectFails,
                  InspectMissing, InspectOther, kube, engine, Return, ForceRemove, DockerErr
    <2> QED
      BY <1>0, <2>1 DEF Tally
  <1>9. CASE KillContainer \/ CreateContainer \/ InspectRunning \/ InspectExited
    <2>1. /\ UNCHANGED <<job, starts, slips>> /\ pc \in Syncing /\ pc # "write"
          /\ dockerErrs' \in {dockerErrs, dockerErrs + 1} /\ view' \in {view, "fresh"}
      BY <1>9, Zenon DEF KillContainer, CreateContainer, InspectRunning, InspectExited, kube, engine,
                  Return, ForceRemove, DockerErr, Syncing, Starting
    <2>2. view = "fresh" => loc.attempts = job.attempts
      BY <1>0, <2>1, Zenon DEF CopyInv
    <2>3. pc' = "write" => loc'.attempts = loc.attempts
      <3>1. /\ Fail(loc).attempts = loc.attempts
            /\ SetPhase(loc, "Running").attempts = loc.attempts
        BY <1>0, StatusFields, PhaseFields, Zenon DEF Phases
      <3> QED
        BY <1>9, <3>1, Zenon DEF KillContainer, CreateContainer, InspectRunning, InspectExited, Return
    <2> QED
      BY <1>0, <2>1, <2>2, <2>3 DEF Tally
  <1> QED
    BY <1>1, <1>2, <1>3, <1>4, <1>5, <1>6, <1>7, <1>8, <1>9, Zenon
       DEF Next, Reconcile, syncJob, Environment

\* As long as no call fails and nothing crashes, lags behind or is removed,
\* status.attempts is the number of runs whenever no reconcile is under way, for
\* every spec and every interleaving of the container's exits with syncJob.
THEOREM AttemptsAreRuns == Spec => []AttemptsCountRuns
  <1>1. Init => Tally
    BY DEF Init, Tally, Created
  <1>2. Tally => AttemptsCountRuns
    BY Zenon DEF Tally, AttemptsCountRuns
  <1> QED
    BY <1>1, <1>2, TallyNext, Invariance, PTL DEF Spec

-----------------------------------------------------------------------------
(* DockerJob implements JobContract: what a job that ends looks like. *)

Ending == {"deleting", "gone"}

LifeInv ==
    /\ seen.life \in Ending => job.life \in Ending
    /\ \A i \in 1 .. Len(pending) :
          /\ seen.life \in Ending => pending[i].life \in Ending
          /\ pending[i].life \in Ending => job.life \in Ending
          /\ job.life = "new" => pending[i].life = "new"
          /\ job.life = "gone" => pending[i].life # "active"
    /\ \A i, j \in 1 .. Len(pending) :
          i < j /\ pending[i].life \in Ending => pending[j].life \in Ending
    /\ job.life = "new" => seen.life = "new" /\ loc.life = "new"
    /\ job.life = "gone" => seen.life # "active" /\ loc.life # "active"
    /\ pc \in {"finalize", "dropFinalizer"} => seen.life \in Ending
    /\ pc \in Syncing => loc.life = "active"

\* The result that v carries is backed by codes x, runs n and w things gone wrong.
Backed(v, s, x, n, w) ==
    /\ v.phase = "Succeeded" => 0 \in x
    /\ v.phase = "Failed" => n > s.backoffLimit \/ s.deadline # Unset \/ w > 0
    /\ v.attempts <= n

Wrong == slips + dockerErrs

ReasonInv ==
    /\ \A v \in {job, seen, loc} : Backed(v, spec, exits, starts, Wrong)
    /\ \A i \in 1 .. Len(pending) : Backed(pending[i], spec, exits, starts, Wrong)
    /\ cont.state = "exited" => cont.code \in exits
    /\ cont.state = "running" => starts > 0
    /\ pc \in {"stop", "kill"} => spec.deadline # Unset
    /\ pc \in {"create", "recreate"} /\ Wrong = 0 => cont.state = "none"
    /\ pc \in {"start", "restart"} /\ Wrong = 0 => cont.state = "created"

-----------------------------------------------------------------------------
(* What the reconciler's writes leave alone. *)

LEMMA LifeFields ==
  ASSUME NEW o \in Job
  PROVE  /\ Bump(o).life = o.life /\ Fail(o).life = o.life /\ Exited(o).life = o.life
         /\ Started(o).life = o.life /\ \A p \in Phases : SetPhase(o, p).life = o.life
  <1>1. Fail(o).life = o.life /\ Exited(o).life = o.life
    BY Zenon DEF Fail, Exited, Job
  <1>2. Started(o).life = o.life
    BY Zenon DEF Started, Counted, Job
  <1>3. \A p \in Phases : SetPhase(o, p).life = o.life
    BY Zenon DEF SetPhase, Job
  <1>4. QED
    BY <1>1, <1>2, <1>3, BumpFields, Zenon

LEMMA ExitedPhase ==
  ASSUME NEW o \in Job
  PROVE  Exited(o).phase = o.phase
  BY Zenon DEF Exited, Job

-----------------------------------------------------------------------------
(* Lives. *)

\* A write appends a version to what the cache has yet to see.
LEMMA StoreAppends ==
  ASSUME TypeOK, NEW v \in Job, Store(v)
  PROVE  /\ job' = v /\ seen' = seen
         /\ \A i \in 1 .. Len(pending') :
               (i \in 1 .. Len(pending) /\ pending'[i] = pending[i])
               \/ (i = Len(pending) + 1 /\ pending'[i] = v)
  BY DEF TypeOK, Store

\* A write keeps LifeInv if it does not take the job back from its end.
LEMMA StoreKeepsLives ==
  ASSUME TypeOK, LifeInv, NEW v \in Job, Store(v),
         job.life \in Ending => v.life \in Ending,
         v.life # "new",
         v.life = "gone" => /\ seen.life # "active" /\ loc'.life # "active"
                            /\ \A i \in 1 .. Len(pending) : pending[i].life # "active",
         pc' \in {"finalize", "dropFinalizer"} => seen.life \in Ending,
         pc' \in Syncing => loc'.life = "active"
  PROVE  LifeInv'
  <1>1. /\ job' = v /\ seen' = seen
        /\ \A i \in 1 .. Len(pending') :
              (i \in 1 .. Len(pending) /\ pending'[i] = pending[i])
              \/ (i = Len(pending) + 1 /\ pending'[i] = v)
    BY StoreAppends, Zenon
  <1>2. Len(pending) \in Nat
    BY DEF TypeOK
  <1>3. \A i \in 1 .. Len(pending') :
           /\ seen.life \in Ending => pending'[i].life \in Ending
           /\ pending'[i].life \in Ending => v.life \in Ending
           /\ v.life = "gone" => pending'[i].life # "active"
    BY <1>1, Zenon DEF LifeInv, Ending
  <1>4. \A i, j \in 1 .. Len(pending') :
           i < j /\ pending'[i].life \in Ending => pending'[j].life \in Ending
    BY <1>1, <1>2 DEF LifeInv, Ending
  <1>5. QED
    BY <1>1, <1>3, <1>4, Zenon DEF LifeInv

LEMMA LifeNext == IInv /\ LifeInv /\ [Next]_vars => LifeInv'
  <1> SUFFICES ASSUME IInv, LifeInv, [Next]_vars PROVE LifeInv'
    OBVIOUS
  <1> /\ TypeOK /\ job \in Job /\ seen \in Job /\ loc \in Job
      /\ job.life \in Lives /\ seen.life \in Lives /\ loc.life \in Lives
      /\ job.rv \in Nat /\ view \in {"fresh", "stale"}
    BY JobFields, Zenon DEF IInv, TypeOK
  <1>a. Created.life = "new"
    BY Zenon DEF Created
  <1>1. ASSUME UNCHANGED kube, loc'.life \in {loc.life, seen.life, "new"},
               pc' \in {"finalize", "dropFinalizer"} => seen.life \in Ending,
               pc' \in Syncing => loc'.life = "active"
        PROVE  LifeInv'
    BY <1>1, Zenon DEF LifeInv, kube
  <1>b. ASSUME UNCHANGED kube, Return PROVE LifeInv'
    BY <1>1, <1>a, <1>b, Zenon DEF Return, Syncing, Starting
  <1>2. CASE Begin
    BY <1>1, <1>2, Zenon DEF Begin, FirstCall, AfterFinalizer, Syncing, Starting, Ending, Lives
  <1>3. CASE AddFinalizer
    <2>1. CASE Refused /\ Return
      BY <1>b, <2>1, Zenon DEF Refused
    <2>2. CASE Accepts /\ loc' = SetLife(loc, "active") /\ Store(loc') /\ pc' = AfterFinalizer(loc')
      <3>1. loc' \in Job /\ loc'.life = "active"
        BY <2>2, StoredType, SetLifeFields, Zenon DEF Lives
      <3>2. job.life = "new"
        BY <1>3, <2>2 DEF AddFinalizer, Accepts, IInv, CopyInv
      <3>3. pc' \notin {"finalize", "dropFinalizer"}
        BY <2>2, Zenon DEF AfterFinalizer
      <3>4. QED
        BY <2>2, <3>1, <3>2, <3>3, StoreKeepsLives, Zenon DEF Ending
    <2>3. QED
      BY <1>3, <2>1, <2>2, Zenon DEF AddFinalizer
  <1>4. CASE Finalize
    BY <1>1, <1>4, Zenon DEF Finalize, LifeInv, Syncing, Starting
  <1>5. CASE DropFinalizer
    <2>1. CASE Refused
      BY <1>b, <1>5, <2>1, Zenon DEF DropFinalizer, Refused
    <2>2. CASE Accepts /\ Store(SetLife(loc, "gone"))
      <3>1. SetLife(loc, "gone") \in Job /\ SetLife(loc, "gone").life = "gone"
        BY StoredType, SetLifeFields, Zenon DEF Lives
      <3>2. seen.life \in Ending /\ pc' = "idle" /\ loc'.life = "new"
        BY <1>5, <1>a, Zenon DEF DropFinalizer, LifeInv, Return
      <3>3. \A i \in 1 .. Len(pending) : pending[i].life # "active"
        BY <3>2, Zenon DEF LifeInv, Ending
      <3>4. QED
        BY <2>2, <3>1, <3>2, <3>3, StoreKeepsLives, Zenon DEF Ending, Syncing, Starting
    <2>3. QED
      BY <1>5, <2>1, <2>2, Zenon DEF DropFinalizer
  <1>6. CASE WriteStatus
    <2>1. pc \in Syncing /\ loc.life = "active" /\ Bump(loc) \in Job /\ Bump(loc).life = "active"
      BY <1>6, BumpType, BumpFields, Zenon DEF WriteStatus, Syncing, LifeInv
    <2>2. pc' \in {"idle", "ttl"} /\ loc' \in {loc, Created}
      BY <1>6, Zenon DEF WriteStatus, Return
    <2>3. CASE Refused
      BY <1>1, <1>a, <2>2, <2>3, Zenon DEF Refused, Syncing, Starting
    <2>4. CASE Accepts /\ Store(Bump(loc))
      <3>1. job.life \in {"new", "active"}
        BY <1>6, <2>4 DEF WriteStatus, Accepts, IInv, CopyInv, Syncing
      <3>2. QED
        BY <2>1, <2>2, <2>4, <3>1, StoreKeepsLives, Zenon DEF Ending, Syncing, Starting
    <2>5. QED
      BY <1>6, <2>3, <2>4, Zenon DEF WriteStatus
  <1>7. CASE UserDelete
    <2>1. PICK l \in {"gone", "deleting"} :
             /\ Store(SetLife(job, l)) /\ l = IF job.life = "new" THEN "gone" ELSE "deleting"
      BY <1>7, Zenon DEF UserDelete
    <2>2. SetLife(job, l) \in Job /\ SetLife(job, l).life = l
      <3>1. l \in Lives
        BY Zenon DEF Lives
      <3>2. QED
        BY <3>1, StoredType, SetLifeFields, Zenon
    <2>3. pc' = pc /\ loc' = loc
      BY <1>7, Zenon DEF UserDelete, worker
    <2>4. l = "gone" => /\ seen.life # "active" /\ loc'.life # "active"
                        /\ \A i \in 1 .. Len(pending) : pending[i].life # "active"
      BY <2>1, <2>3, Zenon DEF LifeInv
    <2>5. /\ pc' \in {"finalize", "dropFinalizer"} => seen.life \in Ending
          /\ pc' \in Syncing => loc'.life = "active"
      BY <2>3, Zenon DEF LifeInv
    <2>6. QED
      BY <2>1, <2>2, <2>4, <2>5, StoreKeepsLives, Zenon DEF Ending
  <1>8. CASE Deliver
    <2>1. /\ 1 \in 1 .. Len(pending) /\ seen' = pending[1]
          /\ \A i \in 1 .. Len(pending') : /\ i + 1 \in 1 .. Len(pending)
                                           /\ pending'[i] = pending[i + 1] /\ 1 < i + 1
          /\ UNCHANGED <<job, pc, loc>>
      BY <1>8 DEF Deliver, TypeOK, worker
    <2>2. \A i \in 1 .. Len(pending') : pending'[i].life \in Ending => job.life \in Ending
      BY <2>1, Zenon DEF LifeInv
    <2>3. \A i \in 1 .. Len(pending') : seen'.life \in Ending => pending'[i].life \in Ending
      BY <2>1, Zenon DEF LifeInv
    <2>4. \A i, j \in 1 .. Len(pending') :
             i < j /\ pending'[i].life \in Ending => pending'[j].life \in Ending
      <3> TAKE i, j \in 1 .. Len(pending')
      <3>1. i < j => i + 1 < j + 1
        OBVIOUS
      <3>2. QED
        BY <2>1, <3>1, Zenon DEF LifeInv
    <2>5. QED
      BY <2>1, <2>2, <2>3, <2>4, Zenon DEF LifeInv
  <1>9. CASE Crash
    <2>1. seen' = job /\ job' = job /\ loc' = Created /\ pc' = "idle" /\ Len(pending') = 0
      BY <1>9, Zenon DEF Crash, Return
    <2>2. QED
      BY <2>1, <1>a DEF LifeInv, Syncing, Starting
  <1>10. ASSUME UNCHANGED kube, UNCHANGED <<pc, loc>> PROVE LifeInv'
    BY <1>10, Zenon DEF LifeInv, kube
  <1>11. CASE InspectMissing \/ InspectRunning \/ InspectExited \/ RemoveForRetry
              \/ CreateContainer \/ StartContainer \/ StopContainer \/ KillContainer
    <2>1. pc \in Syncing /\ loc.life = "active"
      BY <1>11, Zenon DEF LifeInv, Syncing, Starting, InspectMissing, InspectRunning, InspectExited,
                   RemoveForRetry, CreateContainer, StartContainer, StopContainer, KillContainer
    <2>2. CASE InspectMissing \/ RemoveForRetry \/ StopContainer
      BY <1>1, <2>1, <2>2, Zenon DEF InspectMissing, RemoveForRetry, StopContainer, Syncing
    <2>3. CASE InspectRunning
      BY <1>1, <1>b, <2>1, <2>3, LifeFields DEF InspectRunning, Phases
    <2>4. CASE InspectExited
      <3>1. Exited(loc) \in Job /\ Exited(loc).life = loc.life
        BY StatusType, LifeFields, Zenon DEF TypeOK
      <3>2. \A p \in Phases : SetPhase(Exited(loc), p).life = loc.life
        BY <3>1, LifeFields, Zenon
      <3>3. loc'.life = loc.life /\ UNCHANGED kube /\ pc' \in {"writeTTL", "retry"}
        BY <2>4, <3>1, <3>2, Zenon DEF InspectExited, Phases, Terminal
      <3>4. QED
        BY <1>1, <2>1, <3>3, Zenon
    <2>5. CASE CreateContainer \/ StartContainer \/ KillContainer
      <3>1. loc'.life = loc.life /\ UNCHANGED kube /\ pc' \in {"start", "restart", "write"}
        BY <2>5, LifeFields, Zenon DEF CreateContainer, StartContainer, KillContainer
      <3>2. QED
        BY <1>1, <2>1, <3>1, Zenon
    <2>6. QED
      BY <1>11, <2>2, <2>3, <2>4, <2>5, Zenon
  <1>12. CASE UNCHANGED vars
    BY <1>10, <1>12, Zenon DEF vars, worker
  <1>13. QED
    BY <1>b, <1>2, <1>3, <1>4, <1>5, <1>6, <1>7, <1>8, <1>9, <1>10, <1>11, <1>12, Zenon
       DEF Next, Reconcile, syncJob, Environment, BeginGone, InspectFails, InspectOther,
           handleTTLCleanup, Exit, ForeignRemove, Tick, vars, worker

-----------------------------------------------------------------------------
(* Reasons. *)

\* A reason stays one as codes, runs and things gone wrong accumulate.
LEMMA BackedGrows ==
  ASSUME NEW v \in Job, NEW s \in Specs, NEW x, NEW y, x \subseteq y,
         NEW m \in Nat, NEW n \in Nat, m <= n, NEW w \in Nat, NEW z \in Nat, w <= z,
         Backed(v, s, x, m, w)
  PROVE  Backed(v, s, y, n, z)
  BY JobFields, SpecsAssumption DEF Backed

\* Backed looks at the phase and the attempts only.
LEMMA BackedCopies ==
  ASSUME NEW v, NEW u, u.phase = v.phase, u.attempts = v.attempts,
         NEW s, NEW x, NEW n, NEW w, Backed(v, s, x, n, w)
  PROVE  Backed(u, s, x, n, w)
  BY Zenon DEF Backed

\* Runs, exit codes, mishaps and errors only accumulate, and the spec is fixed.
LEMMA Accumulates ==
  ASSUME TypeOK, [Next]_vars
  PROVE  /\ spec' = spec /\ exits \subseteq exits' /\ starts <= starts' /\ Wrong <= Wrong'
         /\ Wrong \in Nat /\ Wrong' \in Nat /\ starts \in Nat /\ starts' \in Nat
         /\ slips <= slips' /\ slips' \in Nat
  <1> USE DEF TypeOK, Wrong, Slip, DockerErr, Refused, ForceRemove, engine
  <1>1. CASE Begin \/ BeginGone \/ AddFinalizer \/ Finalize \/ DropFinalizer
    BY <1>1 DEF Begin, BeginGone, AddFinalizer, Finalize, DropFinalizer, vars
  <1>2. CASE InspectFails \/ InspectMissing \/ InspectRunning \/ InspectExited \/ InspectOther
    BY <1>2 DEF InspectFails, InspectMissing, InspectRunning, InspectExited, InspectOther
  <1>3. CASE RemoveForRetry \/ CreateContainer \/ StartContainer
    BY <1>3 DEF RemoveForRetry, CreateContainer, StartContainer
  <1>4. CASE StopContainer \/ KillContainer \/ WriteStatus \/ handleTTLCleanup
    BY <1>4 DEF StopContainer, KillContainer, WriteStatus, handleTTLCleanup
  <1>5. CASE Environment \/ UNCHANGED vars
    BY <1>5 DEF Environment, Exit, ForeignRemove, UserDelete, Deliver, Crash, Tick, vars
  <1>6. QED
    BY <1>1, <1>2, <1>3, <1>4, <1>5, Zenon DEF Next, Reconcile, syncJob

LEMMA CopiesBacked ==
  ASSUME TypeOK, ReasonInv, [Next]_vars
  PROVE  /\ \A v \in {job', seen', loc'} : Backed(v, spec', exits', starts', Wrong')
         /\ \A i \in 1 .. Len(pending') : Backed(pending'[i], spec', exits', starts', Wrong')
  <1> DEFINE Ok(v) == Backed(v, spec', exits', starts', Wrong')
  <1> /\ job \in Job /\ seen \in Job /\ loc \in Job /\ loc.attempts \in Nat
      /\ spec \in Specs /\ spec.backoffLimit \in Nat /\ cont \in Container
      /\ now \in Nat /\ pending \in Seq(Job) /\ slips \in Nat /\ dockerErrs \in Nat
    BY JobFields, SpecsAssumption, Zenon DEF TypeOK
  <1> /\ spec' = spec /\ exits \subseteq exits' /\ starts <= starts' /\ Wrong <= Wrong'
      /\ Wrong \in Nat /\ Wrong' \in Nat /\ starts \in Nat /\ starts' \in Nat
    BY Accumulates, Zenon
  <1>1. Ok(job) /\ Ok(seen) /\ Ok(loc)
    BY BackedGrows, Zenon DEF ReasonInv
  <1>2. \A i \in 1 .. Len(pending) : Ok(pending[i])
    <2> TAKE i \in 1 .. Len(pending)
    <2>1. pending[i] \in Job
      OBVIOUS
    <2>2. QED
      BY <2>1, BackedGrows, Zenon DEF ReasonInv
  <1>3. Ok(Created)
    BY DEF Created, Backed
  <1>4. ASSUME Wrong' > 0 \/ spec.deadline # Unset PROVE Ok(Fail(loc))
    BY <1>1, <1>4, StatusFields, Zenon DEF Backed
  <1>5. \A l \in Lives : Ok(SetLife(loc, l)) /\ Ok(SetLife(job, l))
    BY <1>1, SetLifeFields, BackedCopies, Zenon
  <1>6. Ok(Bump(loc))
    BY <1>1, BumpFields, BackedCopies, Zenon
  <1> HIDE DEF Ok
  <1>7. Ok(loc')
    <2>1. CASE loc' \in {loc, seen, Created}
      BY <1>1, <1>3, <2>1, Zenon
    <2>2. CASE AddFinalizer
      BY <1>5, <2>1, <2>2, Zenon DEF AddFinalizer, Return, Lives
    <2>3. CASE InspectRunning
      <3>1. Ok(SetPhase(loc, "Running"))
        BY <1>1, PhaseFields DEF Phases, Ok, Backed
      <3>2. QED
        BY <2>1, <2>3, <3>1, Zenon DEF InspectRunning, Return
    <2>4. CASE InspectExited
      <3>1. /\ Exited(loc) \in Job /\ Exited(loc).phase = loc.phase
            /\ Exited(loc).attempts = loc.attempts
        BY StatusType, StatusFields, ExitedPhase, Zenon
      <3>2. Ok(Exited(loc))
        BY <1>1, <3>1, BackedCopies, Zenon DEF Ok
      <3>3. ASSUME NEW p \in Phases
            PROVE  SetPhase(Exited(loc), p).phase = p
                   /\ SetPhase(Exited(loc), p).attempts = loc.attempts
        BY <3>1, PhaseFields, Zenon
      <3>4. CASE cont.code = 0
        <4>1. 0 \in exits'
          BY <2>4, <3>4, Zenon DEF InspectExited, ReasonInv
        <4>2. Ok(SetPhase(Exited(loc), "Succeeded"))
          BY <1>1, <3>3, <4>1, Zenon DEF Ok, Backed, Phases, Terminal
        <4>3. QED
          BY <2>4, <3>4, <4>2, Zenon DEF InspectExited
      <3>5. CASE cont.code # 0 /\ ~CanRetry(loc)
        <4>1. starts' > spec.backoffLimit
          BY <1>1, <3>5 DEF CanRetry, Ok, Backed
        <4>2. Ok(SetPhase(Exited(loc), "Failed"))
          BY <1>1, <3>3, <4>1, Zenon DEF Ok, Backed, Phases, Terminal
        <4>3. QED
          BY <2>4, <3>5, <4>2, Zenon DEF InspectExited
      <3>6. QED
        BY <2>4, <3>2, <3>4, <3>5, Zenon DEF InspectExited
    <2>5. CASE CreateContainer
      <3>1. cont.state # "none" => Wrong > 0
        BY <2>5 DEF CreateContainer, ReasonInv
      <3>2. loc' = loc \/ (loc' = Fail(loc) /\ (cont.state # "none" \/ DockerErr))
        BY <2>5, Zenon DEF CreateContainer
      <3>3. CASE loc' = Fail(loc) /\ DockerErr
        BY <1>4, <2>5, <3>3 DEF CreateContainer, DockerErr, Wrong
      <3>4. QED
        BY <1>4, <2>1, <3>1, <3>2, <3>3
    <2>6. CASE StartContainer
      <3>1. cont.state # "created" => Wrong > 0
        BY <2>6 DEF StartContainer, ReasonInv
      <3>2. CASE cont.state = "none" /\ loc' = Fail(loc)
        BY <1>4, <3>1, <3>2
      <3>3. CASE loc' = Fail(loc) /\ DockerErr
        BY <1>4, <2>6, <3>3 DEF StartContainer, DockerErr, Wrong
      <3>4. CASE loc' = Started(loc) /\ starts' = starts + 1
        <4>1. Started(loc).attempts = loc.attempts + 1 /\ Started(loc).phase = "Running"
          BY StatusFields, Zenon
        <4>2. loc.attempts <= starts
          BY Zenon DEF ReasonInv, Backed
        <4>3. QED
          BY <3>4, <4>1, <4>2 DEF Ok, Backed
      <3>5. QED
        BY <2>6, <3>2, <3>3, <3>4, Zenon DEF StartContainer
    <2>7. CASE KillContainer
      BY <1>4, <2>7, Zenon DEF KillContainer, ReasonInv
    <2>8. QED
      BY <2>1, <2>2, <2>3, <2>4, <2>5, <2>6, <2>7, Zenon
         DEF Next, Reconcile, syncJob, Environment, Begin, BeginGone, Finalize, DropFinalizer,
             InspectFails, InspectMissing, InspectOther, RemoveForRetry, StopContainer,
             WriteStatus, handleTTLCleanup, Exit, ForeignRemove, UserDelete, Deliver, Crash,
             Tick, Return, worker, vars
  <1>8. Ok(job') /\ Ok(seen') /\ \A i \in 1 .. Len(pending') : Ok(pending'[i])
    <2>1. ASSUME NEW v \in Job, Ok(v), Store(v)
          PROVE  Ok(job') /\ Ok(seen') /\ \A i \in 1 .. Len(pending') : Ok(pending'[i])
      BY <1>1, <1>2, <2>1, StoreAppends, Zenon
    <2>2. CASE UNCHANGED kube
      BY <1>1, <1>2, <2>2, Zenon DEF kube
    <2>3. CASE AddFinalizer \/ DropFinalizer \/ UserDelete
      <3>1. \A l \in Lives : SetLife(loc, l) \in Job /\ SetLife(job, l) \in Job
        BY StoredType, Zenon
      <3>2. QED
        BY <1>5, <2>1, <2>2, <2>3, <3>1, Zenon
           DEF AddFinalizer, DropFinalizer, UserDelete, Refused, Lives
    <2>4. CASE WriteStatus
      BY <1>6, <2>1, <2>2, <2>4, BumpType, Zenon DEF WriteStatus, Refused
    <2>5. CASE Deliver
      <3>1. /\ job' = job /\ 1 \in 1 .. Len(pending) /\ seen' = pending[1]
            /\ \A i \in 1 .. Len(pending') : /\ i + 1 \in 1 .. Len(pending)
                                             /\ pending'[i] = pending[i + 1]
        BY <2>5 DEF Deliver
      <3>2. QED
        BY <1>1, <1>2, <3>1, Zenon
    <2>6. CASE Crash
      <3>1. job' = job /\ seen' = job /\ Len(pending') = 0
        BY <2>6, Zenon DEF Crash
      <3>2. QED
        BY <1>1, <3>1
    <2>7. QED
      BY <2>2, <2>3, <2>4, <2>5, <2>6, Zenon
         DEF Next, Reconcile, syncJob, Environment, Begin, BeginGone, Finalize, InspectFails,
             InspectMissing, InspectRunning, InspectExited, InspectOther, RemoveForRetry,
             CreateContainer, StartContainer, StopContainer, KillContainer, handleTTLCleanup,
             Exit, ForeignRemove, Tick, vars
  <1>9. QED
    BY <1>7, <1>8, Zenon DEF Ok

LEMMA ReasonNext == TypeOK /\ ReasonInv /\ [Next]_vars => ReasonInv'
  <1> SUFFICES ASSUME TypeOK, ReasonInv, [Next]_vars PROVE ReasonInv'
    OBVIOUS
  <1> DEFINE Rest ==
        /\ cont.state = "exited" => cont.code \in exits
        /\ cont.state = "running" => starts > 0
        /\ pc \in {"stop", "kill"} => spec.deadline # Unset
        /\ pc \in {"create", "recreate"} /\ Wrong = 0 => cont.state = "none"
        /\ pc \in {"start", "restart"} /\ Wrong = 0 => cont.state = "created"
  <1> /\ Rest /\ cont \in Container /\ slips \in Nat /\ dockerErrs \in Nat /\ starts \in Nat
    BY Zenon DEF TypeOK, ReasonInv
  <1> /\ spec' = spec /\ exits \subseteq exits' /\ starts <= starts' /\ Wrong <= Wrong'
      /\ Wrong \in Nat /\ Wrong' \in Nat /\ starts' \in Nat
    BY Accumulates, Zenon
  <1>1. Rest'
    <2>1. ASSUME UNCHANGED cont, pc' \notin {"stop", "kill", "create", "recreate", "start", "restart"}
          PROVE  Rest'
      BY <2>1
    <2>2. ASSUME cont' = NoContainer, pc' \notin {"stop", "kill", "start", "restart"}
          PROVE  Rest'
      BY <2>2, Zenon DEF NoContainer
    <2>3. ASSUME UNCHANGED <<cont, pc>> PROVE Rest'
      BY <2>3
    <2>4. CASE Begin \/ BeginGone
      BY <2>1, <2>3, <2>4, Zenon DEF Begin, BeginGone, FirstCall, AfterFinalizer, engine, vars, worker
    <2>5. CASE AddFinalizer
      BY <2>1, <2>5, Zenon DEF AddFinalizer, AfterFinalizer, Return, engine
    <2>6. CASE Finalize
      BY <2>1, <2>2, <2>6, Zenon DEF Finalize, ForceRemove
    <2>7. CASE DropFinalizer \/ InspectFails \/ InspectOther \/ Crash
      BY <2>1, <2>7, Zenon DEF DropFinalizer, InspectFails, InspectOther, Crash, Return, engine
    <2>8. CASE InspectMissing
      BY <2>8, Zenon DEF InspectMissing, engine
    <2>9. CASE InspectRunning
      BY <2>9, Zenon DEF InspectRunning, PastDeadline, Return, engine
    <2>10. CASE InspectExited
      BY <2>1, <2>10, Zenon DEF InspectExited, engine
    <2>11. CASE RemoveForRetry
      <3>1. cont' = NoContainer \/ (DockerErr /\ UNCHANGED cont)
        BY <2>11, Zenon DEF RemoveForRetry, ForceRemove
      <3>2. CASE cont' = NoContainer
        BY <2>2, <2>11, <3>2, Zenon DEF RemoveForRetry
      <3>3. CASE DockerErr /\ UNCHANGED cont
        BY <2>11, <3>3 DEF RemoveForRetry, DockerErr, Wrong
      <3>4. QED
        BY <3>1, <3>2, <3>3, Zenon
    <2>12. CASE CreateContainer
      BY <2>12 DEF CreateContainer, NewContainer
    <2>13. CASE StartContainer
      <3>1. pc' = "write" /\ cont.state \in {"created", "none"}
        BY <2>13, Zenon DEF StartContainer
      <3>2. cont' = cont \/ (starts' = starts + 1 /\ cont'.state = "running")
        BY <2>13, Zenon DEF StartContainer, Container
      <3>3. QED
        BY <2>1, <3>1, <3>2
    <2>14. CASE StopContainer
      BY <2>14 DEF StopContainer
    <2>15. CASE KillContainer \/ handleTTLCleanup
      BY <2>1, <2>2, <2>15, Zenon DEF KillContainer, handleTTLCleanup, ForceRemove, Return
    <2>16. CASE WriteStatus
      BY <2>1, <2>16, Zenon DEF WriteStatus, Return, engine
    <2>17. CASE Exit
      <3>1. pc' = pc /\ cont.state = "running"
        BY <2>17, Zenon DEF Exit, worker
      <3>2. cont' = cont \/ (cont'.state = "exited" /\ cont'.code \in exits')
        BY <2>17 DEF Exit
      <3>3. Wrong' = Wrong
        BY <2>17, Zenon DEF Exit, Wrong
      <3>4. QED
        BY <3>1, <3>2, <3>3
    <2>18. CASE ForeignRemove
      <3>1. Wrong' > 0 /\ pc' = pc /\ cont' = NoContainer
        BY <2>18 DEF ForeignRemove, Slip, Wrong, worker
      <3>2. QED
        BY <3>1 DEF NoContainer
    <2>19. CASE UserDelete \/ Deliver \/ Tick \/ UNCHANGED vars
      BY <2>3, <2>19, Zenon DEF UserDelete, Deliver, Tick, vars, worker, engine
    <2>20. QED
      BY <2>4, <2>5, <2>6, <2>7, <2>8, <2>9, <2>10, <2>11, <2>12, <2>13, <2>14, <2>15, <2>16, Zenon,
         <2>17, <2>18, <2>19 DEF Next, Reconcile, syncJob, Environment
  <1>2. QED
    BY <1>1, CopiesBacked, Zenon DEF ReasonInv

-----------------------------------------------------------------------------
(* After a success, and after a report. *)

\* A copy that shows a result is not synced.
OpenInv == pc \in Syncing \ {"write", "writeTTL"} => loc.phase \notin Terminal

\* The container of a run that ended with 0; a job that is not run again.
Over == cont.state = "exited" /\ cont.code = 0
Closed == job.phase \in Terminal \/ job.life \in Ending

\* Without mishaps: once a run has ended with 0 its container stays until the job is
\* closed, so that no reconcile finds it missing.
LastInv ==
    slips = 0 =>
        /\ view = "fresh"
        /\ pc \in Starting => cont.state # "running"
        /\ pc = "ttl" => Closed
        /\ 0 \in exits =>
              /\ pc \notin Starting
              /\ pc = "inspect" => Over
              /\ pc = "write" => loc.phase \in Terminal \/ Over
              /\ pc \notin Syncing => Closed \/ Over

\* The worker is about to write a result.
Reporting == pc \in {"write", "writeTTL"} /\ loc.phase \in Terminal

\* When nothing went wrong, nothing runs from the moment a result is known.
QuietInv ==
    Wrong = 0 =>
        /\ pc = "kill" \/ job.phase \in Terminal \/ Reporting => cont.state # "running"
        /\ spec.deadline = Unset /\ 0 \in exits =>
              job.phase # "Failed" /\ (Reporting => loc.phase # "Failed")

LEMMA OpenNext == TypeOK /\ OpenInv /\ [Next]_vars => OpenInv'
  <1> SUFFICES ASSUME TypeOK, OpenInv, [Next]_vars PROVE OpenInv'
    OBVIOUS
  <1> loc \in Job
    BY Zenon DEF TypeOK
  <1> USE DEF OpenInv, Syncing, Starting
  <1>1. CASE UNCHANGED <<pc, loc>>
    BY <1>1, Zenon
  <1>2. CASE pc' \in {"idle", "ttl", "finalize", "dropFinalizer", "addFinalizer", "write", "writeTTL"}
    BY <1>2, Zenon
  <1>3. CASE Begin \/ AddFinalizer
    BY <1>2, <1>3, Zenon DEF Begin, AddFinalizer, FirstCall, AfterFinalizer, Return
  <1>4. CASE InspectExited
    <2>1. Exited(loc).phase = loc.phase
      BY ExitedPhase, Zenon
    <2>2. QED
      BY <1>2, <1>4, <2>1, Zenon DEF InspectExited
  <1>5. CASE InspectMissing \/ RemoveForRetry \/ CreateContainer \/ StopContainer
    BY <1>2, <1>5, Zenon DEF InspectMissing, RemoveForRetry, CreateContainer, StopContainer
  <1>6. QED
    BY <1>1, <1>2, <1>3, <1>4, <1>5, Zenon
       DEF Next, Reconcile, syncJob, Environment, BeginGone, Finalize, DropFinalizer,
           InspectFails, InspectRunning, InspectOther, StartContainer, KillContainer,
           WriteStatus, handleTTLCleanup, Exit, ForeignRemove, UserDelete, Deliver, Crash,
           Tick, Return, worker, vars

LEMMA LastNext == IInv /\ LifeInv /\ OpenInv /\ LastInv /\ [Next]_vars => LastInv'
  <1> SUFFICES ASSUME IInv, LifeInv, OpenInv, LastInv, [Next]_vars, slips' = 0 PROVE LastInv'
    BY Zenon DEF LastInv
  <1> /\ TypeOK /\ CopyInv /\ job \in Job /\ seen \in Job /\ loc \in Job /\ cont \in Container
      /\ job.life \in Lives /\ job.phase \in Phases /\ loc.phase \in Phases
      /\ slips \in Nat /\ job.rv \in Nat /\ seen.rv \in Nat /\ pc \in PCs
    BY JobFields, Zenon DEF IInv, TypeOK
  <1>0. slips = 0 /\ ~Slip
    BY Accumulates DEF Slip
  <1>1. /\ view = "fresh"
        /\ pc \in Starting => cont.state # "running"
        /\ pc = "ttl" => Closed
        /\ 0 \in exits =>
              /\ pc \notin Starting
              /\ pc = "inspect" => Over
              /\ pc = "write" => loc.phase \in Terminal \/ Over
              /\ pc \notin Syncing => Closed \/ Over
    BY <1>0, Zenon DEF LastInv
  <1>2. ASSUME UNCHANGED <<pc, loc, view, cont, exits>>, Closed => Closed'
        PROVE  LastInv'
    BY <1>1, <1>2, Zenon DEF LastInv, Over
  <1>3. UNCHANGED job => Closed' = Closed
    BY Zenon DEF Closed
  <1>4. ASSUME view' = "fresh", UNCHANGED exits, pc' \notin Syncing,
               Closed' \/ (Over' /\ pc' # "ttl") \/ (0 \notin exits /\ pc' # "ttl")
        PROVE  LastInv'
    BY <1>4, Zenon DEF LastInv, Syncing, Starting
  <1>5. CASE Begin
    <2>1. view' = "fresh" /\ seen.rv = job.rv /\ UNCHANGED <<job, cont, exits>> /\ pc = "idle"
      BY <1>0, <1>5, Zenon DEF Begin, kube, engine
    <2>2. seen = job /\ pc' = FirstCall(job)
      BY <1>5, <2>1, Zenon DEF Begin, IInv, CacheInv, Version
    <2>3. CASE pc' = "inspect"
      <3>1. ~Closed
        BY <1>5, <2>2, <2>3, Zenon DEF Begin, FirstCall, AfterFinalizer, Closed, Ending
      <3>2. QED
        BY <1>1, <2>1, <2>3, <3>1, Zenon DEF LastInv, Over, Syncing, Starting
    <2>4. CASE pc' # "inspect"
      <3>1. pc' \in {"finalize", "addFinalizer", "ttl"} /\ (pc' = "ttl" => Closed)
        BY <2>2, <2>4, Zenon DEF FirstCall, AfterFinalizer, Closed
      <3>2. QED
        BY <1>1, <1>3, <1>4, <2>1, <3>1, Zenon DEF Over, Syncing, Starting
    <2>5. QED
      BY <2>3, <2>4, Zenon
  <1>6. ASSUME Return, UNCHANGED <<job, cont, exits>>, pc = "inspect" \/ pc \notin Syncing
        PROVE  LastInv'
    BY <1>1, <1>3, <1>4, <1>6, Zenon DEF Return, Over, Syncing, Starting
  <1>7. CASE AddFinalizer
    <2>1. CASE Refused
      BY <1>6, <1>7, <2>1 DEF AddFinalizer, Refused, Store, kube, engine, Syncing, Starting, Accepts
    <2>2. CASE Accepts /\ loc' = SetLife(loc, "active") /\ Store(loc') /\ pc' = AfterFinalizer(loc')
      <3>1. /\ view' = "fresh" /\ UNCHANGED <<cont, exits>> /\ pc = "addFinalizer"
        BY <1>1, <1>7, <2>2, Zenon DEF AddFinalizer, Refused, Accepts, Slip, engine, Return
      <3>2. loc = job /\ job.life = "new"
        BY <1>1, <2>2, <3>1, Zenon DEF CopyInv, Accepts
      <3>3. loc'.phase = job.phase /\ job'.phase = job.phase
        BY <2>2, <3>2, SetLifeFields, Zenon DEF Lives, Store
      <3>4. CASE job.phase \in Terminal
        BY <1>4, <2>2, <3>1, <3>3, <3>4, Zenon DEF AfterFinalizer, Closed, Syncing, Starting
      <3>5. CASE job.phase \notin Terminal
        <4>1. pc' = "inspect" /\ ~Closed
          BY <2>2, <3>2, <3>3, <3>5, Zenon DEF AfterFinalizer, Closed, Ending
        <4>2. QED
          BY <1>1, <3>1, <4>1, Zenon DEF LastInv, Over, Syncing, Starting
      <3>6. QED
        BY <3>4, <3>5, Zenon
    <2>3. QED
      BY <1>7, <2>1, <2>2, Zenon DEF AddFinalizer
  <1>8. CASE Finalize
    <2>1. Closed' /\ view' = "fresh" /\ UNCHANGED exits /\ pc' = "dropFinalizer"
      BY <1>1, <1>8, Zenon DEF Finalize, CopyInv, Closed, Ending, kube
    <2>2. QED
      BY <1>4, <2>1, Zenon DEF Syncing, Starting
  <1>9. CASE DropFinalizer
    <2>1. job.life \in Ending
      BY <1>1, <1>9, Zenon DEF DropFinalizer, CopyInv, Ending
    <2>2. SetLife(loc, "gone").life = "gone"
      BY SetLifeFields, Zenon DEF Lives
    <2>3. Closed' /\ view' = "fresh" /\ UNCHANGED exits /\ pc' = "idle"
      BY <1>9, <2>1, <2>2, Zenon DEF DropFinalizer, Return, Store, Refused, Closed, Ending, kube, engine
    <2>4. QED
      BY <1>4, <2>3, Zenon DEF Syncing, Starting
  <1>10. CASE InspectFails \/ InspectOther
    BY <1>6, <1>10, Zenon DEF InspectFails, InspectOther, kube, engine
  <1>11. CASE InspectMissing \/ InspectRunning
    <2>1. 0 \notin exits /\ UNCHANGED <<cont, exits>> /\ view' = "fresh"
      BY <1>1, <1>11, Zenon DEF InspectMissing, InspectRunning, Over, Return, engine
    <2>2. (pc' = "create" /\ cont.state = "none") \/ pc' \in {"stop", "write", "idle"}
      BY <1>11, Zenon DEF InspectMissing, InspectRunning, Return
    <2>3. QED
      BY <2>1, <2>2, Zenon DEF LastInv, Starting
  <1>12. CASE InspectExited
    <2>1. UNCHANGED <<cont, exits>> /\ view' = "fresh" /\ cont.state = "exited" /\ pc = "inspect"
      BY <1>1, <1>12, Zenon DEF InspectExited, engine
    <2>2. pc' = "writeTTL" \/ (pc' = "retry" /\ cont.code # 0)
      BY <1>12, Zenon DEF InspectExited
    <2>3. QED
      BY <1>1, <2>1, <2>2, Zenon DEF LastInv, Over, Syncing, Starting
  <1>13. CASE RemoveForRetry \/ CreateContainer \/ StartContainer
    <2>1. 0 \notin exits /\ UNCHANGED exits /\ view' = "fresh" /\ cont.state # "running"
      BY <1>1, <1>13, Zenon DEF RemoveForRetry, CreateContainer, StartContainer, Starting
    <2>2. pc' = "write" \/ cont' \in {cont, NoContainer, NewContainer}
      BY <1>13, Zenon DEF RemoveForRetry, CreateContainer, StartContainer, ForceRemove
    <2>3. pc' # "ttl"
      BY <1>13, Zenon DEF RemoveForRetry, CreateContainer, StartContainer
    <2>4. QED
      BY <2>1, <2>2, <2>3 DEF LastInv, Starting, NoContainer, NewContainer
  <1>14. CASE StopContainer
    BY <1>1, <1>14, Zenon DEF StopContainer, LastInv, Syncing, Starting
  <1>15. CASE KillContainer
    <2>1. loc'.phase \in Terminal /\ pc' = "write" /\ view' = "fresh"
      BY <1>1, <1>15, StatusFields, Zenon DEF KillContainer, Terminal
    <2>2. QED
      BY <2>1, Zenon DEF LastInv, Syncing, Starting
  <1>16. CASE WriteStatus
    <2>1. view' = "fresh" /\ UNCHANGED <<cont, exits>> /\ pc' \in {"idle", "ttl"} /\ pc \in Syncing
      BY <1>1, <1>16, Zenon DEF WriteStatus, Return, engine, Syncing
    <2>2. CASE Refused
      <3>1. Closed /\ UNCHANGED job
        BY <1>0, <1>1, <2>1, <2>2, Zenon DEF Refused, Accepts, CopyInv, Closed, Ending, Lives, kube
      <3>2. QED
        BY <1>3, <1>4, <2>1, <3>1, Zenon DEF Syncing, Starting
    <2>3. CASE Accepts /\ Store(Bump(loc))
      <3>1. job'.phase = loc.phase
        BY <2>3, BumpFields, Zenon DEF Store
      <3>2. loc.phase \in Terminal => Closed'
        BY <3>1, Zenon DEF Closed
      <3>3. (pc = "writeTTL" /\ loc.phase \in Terminal) \/ (pc = "write" /\ pc' = "idle")
        BY <1>16, Zenon DEF WriteStatus, CopyInv, Return
      <3>4. QED
        BY <1>1, <1>4, <2>1, <3>2, <3>3, Zenon DEF Over, Syncing, Starting
    <2>4. QED
      BY <1>16, <2>2, <2>3, Zenon DEF WriteStatus
  <1>17. CASE handleTTLCleanup
    BY <1>1, <1>3, <1>4, <1>17, Zenon DEF handleTTLCleanup, Return, kube, Syncing, Starting
  <1>18. CASE Exit
    <2>1. UNCHANGED <<pc, loc, view, job>> /\ cont.state = "running" /\ (Closed' <=> Closed)
      BY <1>3, <1>18 DEF Exit, worker, kube
    <2>2. 0 \in exits' => 0 \in exits \/ Over'
      BY <1>18 DEF Exit, Over
    <2>3. pc \notin Starting /\ ~Over
      BY <1>1, <2>1, Zenon DEF Over
    <2>4. QED
      BY <1>1, <2>1, <2>2, <2>3, Zenon DEF LastInv
  <1>19. CASE UserDelete
    <2>1. \A l \in Lives : SetLife(job, l).life = l
      BY SetLifeFields, Zenon
    <2>2. Closed' /\ UNCHANGED <<pc, loc, view, cont, exits>>
      BY <1>19, <2>1, Zenon DEF UserDelete, Store, Closed, Ending, Lives, worker, engine
    <2>3. QED
      BY <1>2, <2>2, Zenon
  <1>20. CASE Deliver \/ Tick \/ BeginGone \/ UNCHANGED vars
    BY <1>2, <1>3, <1>20, Zenon DEF Deliver, Tick, BeginGone, vars, worker, engine, kube
  <1>21. CASE ForeignRemove \/ Crash
    BY <1>0, <1>21, Zenon DEF ForeignRemove, Crash
  <1>22. QED
    BY <1>5, <1>7, <1>8, <1>9, <1>10, <1>11, <1>12, <1>13, <1>14, <1>15, <1>16, <1>17, <1>18, Zenon,
       <1>19, <1>20, <1>21 DEF Next, Reconcile, syncJob, Environment

LEMMA QuietNext ==
    IInv /\ ReasonInv /\ LastInv /\ QuietInv /\ [Next]_vars => QuietInv'
  <1> SUFFICES ASSUME IInv, ReasonInv, LastInv, QuietInv, [Next]_vars, Wrong' = 0
               PROVE  QuietInv'
    BY Zenon DEF QuietInv
  <1> /\ TypeOK /\ CopyInv /\ job \in Job /\ loc \in Job /\ cont \in Container
      /\ job.phase \in Phases /\ slips \in Nat /\ dockerErrs \in Nat /\ job.rv \in Nat
    BY JobFields, Zenon DEF IInv, TypeOK
  <1>0. Wrong = 0 /\ slips = 0 /\ slips' = 0 /\ dockerErrs' = 0 /\ ~Slip /\ ~DockerErr
    <2>1. Wrong = 0 /\ slips' \in Nat /\ dockerErrs' \in Nat
      BY Accumulates, TypeNext DEF TypeOK
    <2>2. \A m, n \in Nat : m + n = 0 => m = 0 /\ n = 0
      OBVIOUS
    <2>3. slips = 0 /\ dockerErrs = 0 /\ slips' = 0 /\ dockerErrs' = 0
      BY <2>1, <2>2, Zenon DEF Wrong
    <2>4. QED
      BY <2>1, <2>3 DEF Slip, DockerErr
  <1>1. /\ pc = "kill" \/ job.phase \in Terminal \/ Reporting => cont.state # "running"
        /\ spec.deadline = Unset /\ 0 \in exits =>
              job.phase # "Failed" /\ (Reporting => loc.phase # "Failed")
        /\ view = "fresh" /\ spec' = spec
    BY <1>0, Accumulates, Zenon DEF QuietInv, LastInv
  <1>2. ASSUME job'.phase = job.phase, cont' \in {cont, NoContainer}, UNCHANGED exits,
               pc' # "kill", ~Reporting'
        PROVE  QuietInv'
    BY <1>1, <1>2 DEF QuietInv, NoContainer
  <1>3. ASSUME job'.phase = job.phase, UNCHANGED <<cont, exits, pc, loc>> PROVE QuietInv'
    BY <1>1, <1>3, Zenon DEF QuietInv, Reporting
  <1>4. CASE AddFinalizer \/ DropFinalizer
    <2>1. /\ pc' \in {"idle", "ttl", "inspect"} /\ UNCHANGED <<cont, exits>>
      BY <1>4, Zenon DEF AddFinalizer, DropFinalizer, AfterFinalizer, Return, engine
    <2>2. Accepts => loc = job
      BY <1>1, <1>4, Zenon DEF AddFinalizer, DropFinalizer, CopyInv, Accepts
    <2>3. \A l \in Lives : SetLife(loc, l).phase = loc.phase
      BY SetLifeFields, Zenon
    <2>4. job'.phase = job.phase
      BY <1>4, <2>2, <2>3, Zenon DEF AddFinalizer, DropFinalizer, Store, Refused, Lives, kube
    <2>5. QED
      BY <1>2, <2>1, <2>4, Zenon DEF Reporting
  <1>5. CASE Begin \/ Finalize \/ RemoveForRetry \/ handleTTLCleanup
    <2>1. pc' \notin {"kill", "write", "writeTTL"} /\ UNCHANGED <<job, exits>>
      BY <1>5, Zenon DEF Begin, Finalize, RemoveForRetry, handleTTLCleanup, FirstCall, AfterFinalizer,
                  Return, kube, engine
    <2>2. cont' \in {cont, NoContainer}
      BY <1>5, Zenon DEF Begin, Finalize, RemoveForRetry, handleTTLCleanup, ForceRemove, engine
    <2>3. QED
      BY <1>2, <2>1, <2>2, Zenon DEF Reporting
  <1>6. CASE InspectFails \/ InspectMissing \/ InspectOther
    BY <1>2, <1>6, Zenon DEF InspectFails, InspectMissing, InspectOther, Reporting, Return, kube, engine
  <1>7. CASE InspectRunning
    <2>1. SetPhase(loc, "Running").phase = "Running"
      BY PhaseFields, Zenon DEF Phases
    <2>2. pc' # "kill" /\ ~Reporting'
      BY <1>7, <2>1, Zenon DEF InspectRunning, Reporting, Return, Terminal
    <2>3. QED
      BY <1>2, <1>7, <2>2, Zenon DEF InspectRunning, kube, engine
  <1>8. CASE InspectExited
    <2>1. /\ UNCHANGED <<job, cont, exits>> /\ cont.state = "exited" /\ pc = "inspect"
          /\ pc' \in {"writeTTL", "retry"}
      BY <1>8, Zenon DEF InspectExited, kube, engine
    <2>2. Exited(loc) \in Job /\ SetPhase(Exited(loc), "Succeeded").phase = "Succeeded"
      BY StatusType, PhaseFields, Zenon DEF TypeOK, Phases, Terminal
    <2>3. cont.code = 0 => loc'.phase = "Succeeded"
      BY <1>8, <2>2, Zenon DEF InspectExited
    <2>4. 0 \in exits => cont.code = 0
      BY <1>0, <2>1, Zenon DEF LastInv, Over
    <2>5. QED
      BY <1>1, <2>1, <2>3, <2>4, Zenon DEF QuietInv, Reporting
  <1>9. CASE CreateContainer
    <2>1. cont.state = "none"
      BY <1>0, <1>9, Zenon DEF CreateContainer, ReasonInv
    <2>2. cont' = NewContainer /\ pc' \in {"start", "restart"} /\ UNCHANGED <<job, exits>>
      BY <1>0, <1>9, <2>1, Zenon DEF CreateContainer, kube
    <2>3. QED
      BY <1>1, <2>2, Zenon DEF QuietInv, Reporting, NewContainer
  <1>10. CASE StartContainer
    <2>1. job.phase \notin Terminal
      BY <1>1, <1>10, Zenon DEF StartContainer, CopyInv, Syncing, Starting
    <2>2. cont.state = "created"
      BY <1>0, <1>10, Zenon DEF StartContainer, ReasonInv
    <2>3. loc' = Started(loc) /\ pc' = "write" /\ UNCHANGED job
      BY <1>0, <1>10, <2>2, Zenon DEF StartContainer, kube
    <2>4. loc'.phase = "Running"
      BY <2>3, StatusFields, Zenon
    <2>5. QED
      BY <2>1, <2>3, <2>4, Zenon DEF QuietInv, Reporting, Terminal
  <1>11. CASE StopContainer \/ KillContainer
    <2>1. spec.deadline # Unset
      BY <1>11, Zenon DEF StopContainer, KillContainer, ReasonInv
    <2>2. CASE StopContainer
      <3>1. cont'.state # "running"
        BY <1>0, <2>2 DEF StopContainer
      <3>2. QED
        BY <1>1, <2>1, <3>1, Zenon DEF QuietInv
    <2>3. CASE KillContainer
      <3>1. cont' = NoContainer
        BY <1>0, <2>3, Zenon DEF KillContainer, ForceRemove
      <3>2. QED
        BY <1>1, <2>1, <3>1, Zenon DEF QuietInv, NoContainer
    <2>4. QED
      BY <1>11, <2>2, <2>3, Zenon
  <1>12. CASE WriteStatus
    <2>1. pc' \in {"idle", "ttl"} /\ UNCHANGED <<cont, exits>> /\ pc \in {"write", "writeTTL"}
      BY <1>12, Zenon DEF WriteStatus, Return, engine
    <2>2. job'.phase = job.phase \/ job'.phase = loc.phase
      BY <1>12, BumpFields, Zenon DEF WriteStatus, Store, Refused, kube
    <2>3. CASE job'.phase = job.phase
      BY <1>2, <2>1, <2>3, Zenon DEF Reporting
    <2>4. CASE job'.phase = loc.phase
      BY <1>1, <2>1, <2>4, Zenon DEF QuietInv, Reporting, Terminal
    <2>5. QED
      BY <2>2, <2>3, <2>4, Zenon
  <1>13. CASE Exit
    <2>1. UNCHANGED <<pc, loc, job>> /\ cont.state = "running"
      BY <1>13, Zenon DEF Exit, worker, kube
    <2>2. QED
      BY <1>1, <2>1, Zenon DEF QuietInv, Reporting, Terminal
  <1>14. CASE UserDelete
    <2>1. \A l \in Lives : SetLife(job, l).phase = job.phase
      BY SetLifeFields, Zenon
    <2>2. QED
      BY <1>3, <1>14, <2>1, Zenon DEF UserDelete, Store, Lives, worker, engine
  <1>15. CASE Deliver \/ Tick \/ BeginGone \/ UNCHANGED vars
    BY <1>3, <1>15, Zenon DEF Deliver, Tick, BeginGone, vars, worker, engine, kube
  <1>16. CASE ForeignRemove \/ Crash
    BY <1>0, <1>16, Zenon DEF ForeignRemove, Crash
  <1>17. QED
    BY <1>4, <1>5, <1>6, <1>7, <1>8, <1>9, <1>10, <1>11, <1>12, <1>13, <1>14, <1>15, <1>16, Zenon
       DEF Next, Reconcile, syncJob, Environment

-----------------------------------------------------------------------------
(* The refinement. *)

CInv == IInv /\ LifeInv /\ ReasonInv /\ OpenInv /\ LastInv /\ QuietInv

LEMMA CInvInit == Init => CInv
  <1> SUFFICES ASSUME Init PROVE CInv
    OBVIOUS
  <1>1. IInv /\ Len(pending) = 0 /\ seen = Created /\ job = Created /\ loc = Created
    BY InvInit, Zenon DEF Init
  <1>a. pc = "idle" /\ Created.life = "new" /\ Created.phase = "None"
    BY Zenon DEF Init, Created
  <1>2. LifeInv
    BY <1>1, <1>a DEF LifeInv, Ending, Syncing, Starting
  <1>3. Backed(Created, spec, exits, starts, Wrong)
    BY DEF Backed, Created, Init
  <1>4. ReasonInv
    BY <1>1, <1>3 DEF ReasonInv, Init, NoContainer
  <1>5. OpenInv /\ LastInv /\ QuietInv
    <2>1. OpenInv
      BY <1>a, Zenon DEF OpenInv, Syncing, Starting
    <2>2. exits = {} /\ view = "fresh"
      BY Zenon DEF Init
    <2>3. LastInv
      BY <1>a, <2>2, Zenon DEF LastInv, Starting
    <2>4. QuietInv
      BY <1>1, <1>a, <2>2, Zenon DEF QuietInv, Reporting, Terminal
    <2>5. QED
      BY <2>1, <2>3, <2>4, Zenon
  <1>6. QED
    BY <1>1, <1>2, <1>4, <1>5, Zenon DEF CInv

LEMMA CInvNext == CInv /\ [Next]_vars => CInv'
  <1>1. IInv => TypeOK
    BY Zenon DEF IInv
  <1>2. QED
    BY <1>1, InvNext, LifeNext, ReasonNext, OpenNext, LastNext, QuietNext, Zenon DEF CInv

\* What the contract sees of the job.
Result == IF job.phase \in Terminal THEN job.phase ELSE "None"
Life == IF job.life = "gone" THEN "gone" ELSE "there"

LEMMA ContractInit == Init => Contract!Init
  <1> SUFFICES ASSUME Init PROVE Contract!Init
    OBVIOUS
  <1>1. spec.backoffLimit \in Nat
    BY SpecsAssumption, Zenon DEF Init
  <1>2. QED
    BY <1>1, Zenon DEF Init, Contract!Init, Created, Terminal

LEMMA ContractNext == CInv /\ [Next]_vars => [Contract!Next]_(Contract!vars)
  <1> SUFFICES ASSUME CInv, [Next]_vars PROVE [Contract!Next]_(Contract!vars)
    OBVIOUS
  <1> /\ TypeOK /\ IInv /\ CopyInv /\ LifeInv /\ ReasonInv /\ LastInv /\ QuietInv
      /\ job \in Job /\ loc \in Job /\ job.life \in Lives /\ view \in {"fresh", "stale"}
      /\ spec \in Specs /\ spec.backoffLimit \in Nat
      /\ starts \in Nat /\ slips \in Nat /\ dockerErrs \in Nat /\ job.rv \in Nat
    BY JobFields, SpecsAssumption, Zenon DEF CInv, IInv, TypeOK
  <1>1. ASSUME UNCHANGED <<spec, starts, exits, slips, dockerErrs, Result, Life>>
        PROVE  [Contract!Next]_(Contract!vars)
    BY <1>1, Zenon DEF Contract!vars, Result, Life
  <1>2. ASSUME UNCHANGED <<spec, starts, exits, Result, Life>>,
               \/ Slip /\ UNCHANGED dockerErrs
               \/ DockerErr /\ UNCHANGED slips
        PROVE  [Contract!Next]_(Contract!vars)
    BY <1>2, Zenon DEF Contract!Next, Contract!GoWrong, Slip, DockerErr, Result, Life
  <1>3. UNCHANGED job => UNCHANGED <<Result, Life>>
    BY Zenon DEF Result, Life
  <1>4. CASE Begin \/ BeginGone \/ Finalize
    BY <1>1, <1>2, <1>3, <1>4, Zenon DEF Begin, BeginGone, Finalize, ForceRemove, kube, engine, vars
  <1>5. CASE InspectFails \/ InspectMissing \/ InspectRunning \/ InspectExited \/ InspectOther
    BY <1>1, <1>2, <1>3, <1>5, Zenon
       DEF InspectFails, InspectMissing, InspectRunning, InspectExited, InspectOther, kube, engine
  <1>6. CASE RemoveForRetry \/ CreateContainer \/ KillContainer \/ handleTTLCleanup
    BY <1>1, <1>2, <1>3, <1>6, Zenon
       DEF RemoveForRetry, CreateContainer, KillContainer, handleTTLCleanup, ForceRemove, kube
  <1>7. CASE ForeignRemove \/ Deliver \/ Crash \/ Tick \/ UNCHANGED vars
    BY <1>1, <1>2, <1>3, <1>7, Zenon DEF ForeignRemove, Deliver, Crash, Tick, kube, engine, vars
  <1>8. ASSUME Refused, UNCHANGED <<spec, engine, dockerErrs>>
        PROVE  [Contract!Next]_(Contract!vars)
    BY <1>1, <1>2, <1>3, <1>8, Zenon DEF Refused, kube, engine
  <1>9. CASE StartContainer
    <2>1. UNCHANGED <<spec, job, exits, slips>>
      BY <1>9, Zenon DEF StartContainer, kube
    <2>2. CASE starts' = starts
      <3>1. UNCHANGED dockerErrs \/ DockerErr
        BY <1>9, Zenon DEF StartContainer
      <3>2. QED
        BY <1>1, <1>2, <1>3, <2>1, <2>2, <3>1, Zenon
    <2>3. CASE starts' = starts + 1
      <3>1. pc \in {"start", "restart"} /\ (UNCHANGED dockerErrs \/ DockerErr)
        BY <1>9, Zenon DEF StartContainer
      <3>2. starts <= spec.backoffLimit + slips
        BY <3>1, Zenon DEF IInv, Budget, Limit, Starting
      <3>3. job.life # "gone"
        BY <3>1, Zenon DEF LifeInv, Syncing, Starting
      <3>4. slips > 0 \/ (0 \notin exits /\ job.phase \notin Terminal)
        <4>1. pc \in Starting /\ pc \in Syncing
          BY <3>1, Zenon DEF Syncing, Starting
        <4>2. slips = 0 => view = "fresh" /\ 0 \notin exits
          BY <4>1, Zenon DEF LastInv
        <4>3. view = "fresh" => job.phase \notin Terminal
          BY <4>1, Zenon DEF CopyInv
        <4>4. QED
          BY <4>2, <4>3
      <3>5. QED
        BY <2>1, <2>3, <3>1, <3>2, <3>3, <3>4, Zenon DEF Contract!Next, Contract!Run, DockerErr
    <2>4. QED
      BY <1>9, <2>2, <2>3, Zenon DEF StartContainer
  <1>10. ASSUME UNCHANGED <<spec, job, starts, slips, dockerErrs>>, cont.state = "running",
                NEW c \in ExitCodes, exits' = exits \cup {c}
         PROVE  [Contract!Next]_(Contract!vars)
    <2>1. starts > 0
      BY <1>10, Zenon DEF ReasonInv
    <2>2. job.phase \in Terminal => slips + dockerErrs # 0
      BY <1>10, Zenon DEF QuietInv, Wrong
    <2>3. job.phase \notin Terminal \/ slips + dockerErrs > 0
      BY <2>2
    <2>4. QED
      BY <1>10, <2>1, <2>3, Zenon DEF Contract!Next, Contract!End
  <1>11. CASE Exit
    BY <1>10, <1>11, Zenon DEF Exit, kube
  <1>12. CASE StopContainer
    BY <1>1, <1>2, <1>3, <1>10, <1>12, Zenon DEF StopContainer, kube
  <1>13. ASSUME NEW v \in Job, job' = v, v.phase = job.phase, v.life \in Lives,
                job.life # "gone", UNCHANGED <<spec, starts, exits, slips, dockerErrs>>
         PROVE  [Contract!Next]_(Contract!vars)
    <2>1. UNCHANGED Result
      BY <1>13, Zenon DEF Result
    <2>2. CASE v.life = "gone"
      BY <1>13, <2>1, <2>2, Zenon DEF Contract!Next, Contract!Leave, Result
    <2>3. CASE v.life # "gone"
      BY <1>1, <1>13, <2>1, <2>3, Zenon DEF Life
    <2>4. QED
      BY <2>2, <2>3, Zenon
  <1>14. CASE AddFinalizer \/ DropFinalizer
    <2>1. CASE Refused
      BY <1>8, <1>14, <2>1, Zenon DEF AddFinalizer, DropFinalizer
    <2>2. CASE Accepts
      <3>1. job.life # "gone" /\ loc = job
        <4>1. pc \in {"addFinalizer", "dropFinalizer"} /\ job.life # "gone" /\ loc.rv = job.rv
          BY <1>14, <2>2, Zenon DEF AddFinalizer, DropFinalizer, Accepts
        <4>2. view = "fresh"
          BY <4>1 DEF CopyInv
        <4>3. QED
          BY <4>1, <4>2, Zenon DEF CopyInv
      <3>2. \A l \in Lives : /\ SetLife(loc, l) \in Job /\ SetLife(loc, l).life = l
                             /\ SetLife(loc, l).phase = loc.phase
        BY StoredType, SetLifeFields, Zenon
      <3>3. ASSUME UNCHANGED slips, \E l \in {"active", "gone"} : job' = SetLife(loc, l)
            PROVE  [Contract!Next]_(Contract!vars)
        BY <1>13, <1>14, <3>1, <3>2, <3>3, Zenon DEF AddFinalizer, DropFinalizer, engine, Lives
      <3>4. QED
        BY <1>14, <2>1, <3>3, Zenon DEF AddFinalizer, DropFinalizer, Store
    <2>3. QED
      BY <1>14, <2>1, <2>2, Zenon DEF AddFinalizer, DropFinalizer
  <1>15. CASE UserDelete
    <2>1. \A l \in Lives : /\ SetLife(job, l) \in Job /\ SetLife(job, l).life = l
                           /\ SetLife(job, l).phase = job.phase
      BY StoredType, SetLifeFields, Zenon
    <2>2. QED
      BY <1>13, <1>15, <2>1, Zenon DEF UserDelete, Store, engine, Lives
  <1>16. CASE WriteStatus
    <2>1. CASE Refused
      BY <1>8, <1>16, <2>1, Zenon DEF WriteStatus
    <2>2. CASE Accepts /\ Store(Bump(loc)) /\ UNCHANGED slips
      <3>1. /\ job' = Bump(loc) /\ job'.phase = loc.phase /\ job'.life = loc.life
            /\ loc.phase \in Phases
        BY <2>2, BumpFields, JobFields, Zenon DEF Store
      <3>2. job.phase \notin Terminal /\ job.life # "gone" /\ loc.life # "gone"
        <4>1. pc \in Syncing /\ job.life # "gone" /\ loc.rv = job.rv
          BY <1>16, <2>2, Zenon DEF WriteStatus, Accepts, Syncing
        <4>2. view = "fresh"
          BY <4>1 DEF CopyInv
        <4>3. job.phase \notin Terminal
          BY <4>1, <4>2, Zenon DEF CopyInv
        <4>4. loc.life = "active"
          BY <4>1, Zenon DEF LifeInv
        <4>5. QED
          BY <4>1, <4>3, <4>4, Zenon
      <3>3. UNCHANGED <<spec, starts, exits, slips, dockerErrs, Life>>
        BY <1>16, <2>2, <3>1, <3>2, Zenon DEF WriteStatus, engine, Life
      <3>4. CASE loc.phase \notin Terminal
        BY <1>1, <3>1, <3>2, <3>3, <3>4, Zenon DEF Result
      <3>5. CASE loc.phase \in Terminal
        <4>1. /\ loc.phase = "Succeeded" => 0 \in exits
              /\ loc.phase = "Failed" => \/ starts > spec.backoffLimit /\ 0 \notin exits
                                         \/ spec.deadline # Unset \/ slips + dockerErrs > 0
          <5>1. Reporting
            BY <1>16, <3>5, Zenon DEF WriteStatus, Reporting
          <5>2. Wrong = slips + dockerErrs /\ Wrong \in Nat
            BY DEF Wrong
          <5>3. Backed(loc, spec, exits, starts, Wrong)
            BY Zenon DEF ReasonInv
          <5>4. Wrong = 0 /\ spec.deadline = Unset /\ 0 \in exits => loc.phase # "Failed"
            BY <5>1, Zenon DEF QuietInv
          <5>5. QED
            BY <5>2, <5>3, <5>4 DEF Backed
        <4>2. QED
          BY <3>1, <3>2, <3>3, <3>5, <4>1, Zenon DEF Contract!Next, Contract!Report, Terminal, Life
      <3>6. QED
        BY <3>4, <3>5, Zenon
    <2>3. QED
      BY <1>16, <2>1, <2>2, Zenon DEF WriteStatus
  <1>17. QED
    BY <1>4, <1>5, <1>6, <1>7, <1>9, <1>11, <1>12, <1>14, <1>15, <1>16, Zenon
       DEF Next, Reconcile, syncJob, Environment

\* The whole of syncJob and its surroundings keeps the contract: the budget of runs,
\* no run of a job that is gone, or, without mishaps, that has succeeded or reported,
\* one result and a reason for it.
THEOREM Implementation == Spec => KeepsContract
  <1>1. Spec => []CInv
    BY CInvInit, CInvNext, PTL DEF Spec
  <1>2. QED
    BY <1>1, ContractInit, ContractNext, PTL DEF Spec, KeepsContract, Contract!Spec

-----------------------------------------------------------------------------
(* No orphans. *)

\* There is no container before the finalizer is on, when it is about to be
\* dropped, and after that.
OrphanInv ==
    dockerErrs = 0 /\ (job.life \in {"new", "gone"} \/ pc = "dropFinalizer")
        => cont.state = "none"

LEMMA OrphanNext == CInv /\ OrphanInv /\ [Next]_vars => OrphanInv'
  <1> SUFFICES ASSUME CInv, OrphanInv, [Next]_vars PROVE OrphanInv'
    OBVIOUS
  <1> /\ TypeOK /\ IInv /\ LifeInv
      /\ job \in Job /\ loc \in Job /\ job.life \in Lives /\ view \in {"fresh", "stale"}
      /\ dockerErrs \in Nat /\ job.rv \in Nat
    BY JobFields, Zenon DEF CInv, IInv, TypeOK
  <1>1. ASSUME pc \in Syncing PROVE job.life \notin {"new", "gone"} /\ pc # "dropFinalizer"
    BY <1>1, Zenon DEF LifeInv, Syncing, Starting
  <1>2. ASSUME UNCHANGED <<dockerErrs, cont>>, job'.life \in {"new", "gone"} => job.life = job'.life,
               pc' = "dropFinalizer" => pc = "dropFinalizer"
        PROVE  OrphanInv'
    BY <1>2, Zenon DEF OrphanInv
  <1>3. ASSUME DockerErr \/ cont' = NoContainer PROVE OrphanInv'
    BY <1>3 DEF OrphanInv, DockerErr, NoContainer
  <1>4. ASSUME pc \in Syncing, pc' # "dropFinalizer", UNCHANGED job PROVE OrphanInv'
    BY <1>1, <1>4, Zenon DEF OrphanInv
  <1>5. CASE Begin \/ BeginGone
    BY <1>2, <1>5, Zenon DEF Begin, BeginGone, FirstCall, AfterFinalizer, kube, engine, worker, vars
  <1>6. CASE AddFinalizer
    <2>1. SetLife(loc, "active").life = "active"
      BY SetLifeFields, Zenon DEF Lives
    <2>2. job'.life \in {"new", "gone"} => job.life = job'.life
      BY <1>6, <2>1, Zenon DEF AddFinalizer, Store, Refused, kube
    <2>3. pc' # "dropFinalizer"
      BY <1>6, Zenon DEF AddFinalizer, AfterFinalizer, Return
    <2>4. QED
      BY <1>2, <1>6, <2>2, <2>3, Zenon DEF AddFinalizer, engine
  <1>7. CASE Finalize
    <2>1. DockerErr \/ cont' = NoContainer
      BY <1>7, Zenon DEF Finalize, ForceRemove
    <2>2. QED
      BY <1>3, <2>1, Zenon
  <1>8. CASE DropFinalizer
    BY <1>8, Zenon DEF DropFinalizer, OrphanInv, Return, engine
  <1>9. CASE InspectFails \/ InspectMissing \/ InspectRunning \/ InspectExited \/ InspectOther
    BY <1>4, <1>9, Zenon DEF InspectFails, InspectMissing, InspectRunning, InspectExited, InspectOther,
                      Syncing, Return, kube
  <1>10. CASE RemoveForRetry \/ CreateContainer \/ StartContainer \/ StopContainer \/ KillContainer
    BY <1>4, <1>10, Zenon DEF RemoveForRetry, CreateContainer, StartContainer, StopContainer,
                       KillContainer, Syncing, Starting, kube
  <1>11. CASE WriteStatus
    <2>1. pc \in Syncing /\ pc' # "dropFinalizer" /\ UNCHANGED <<dockerErrs, cont>>
      BY <1>11, Zenon DEF WriteStatus, Syncing, Return, engine
    <2>2. Bump(loc).life = "active"
      BY <2>1, BumpFields, Zenon DEF LifeInv
    <2>3. job'.life \in {"new", "gone"} => job.life = job'.life
      BY <1>11, <2>2, Zenon DEF WriteStatus, Store, Refused, kube
    <2>4. QED
      BY <1>2, <2>1, <2>3, Zenon
  <1>12. CASE handleTTLCleanup
    BY <1>2, <1>3, <1>12, Zenon DEF handleTTLCleanup, ForceRemove, Return, kube
  <1>13. CASE Exit
    BY <1>13, Zenon DEF Exit, OrphanInv, kube, worker
  <1>14. CASE ForeignRemove
    BY <1>3, <1>14, Zenon DEF ForeignRemove
  <1>15. CASE UserDelete
    <2>1. \A l \in Lives : SetLife(job, l).life = l
      BY SetLifeFields, Zenon
    <2>2. job'.life \in {"new", "gone"} => job.life = "new"
      BY <1>15, <2>1, Zenon DEF UserDelete, Store, Lives
    <2>3. QED
      BY <1>15, <2>2, Zenon DEF UserDelete, OrphanInv, engine, worker
  <1>16. CASE Deliver \/ Crash \/ Tick \/ UNCHANGED vars
    BY <1>2, <1>16, Zenon DEF Deliver, Crash, Tick, Return, kube, engine, worker, vars
  <1>17. QED
    BY <1>5, <1>6, <1>7, <1>8, <1>9, <1>10, <1>11, <1>12, <1>13, <1>14, <1>15, <1>16, Zenon
       DEF Next, Reconcile, syncJob, Environment

\* Unless a Docker call failed, a job that is gone has left no container behind,
\* however stale the copies were on which the worker acted.
THEOREM OrphanFree == Spec => []NoOrphan
  <1>1. Init => CInv /\ OrphanInv
    BY CInvInit DEF Init, OrphanInv, NoContainer
  <1>2. (CInv /\ OrphanInv) /\ [Next]_vars => (CInv /\ OrphanInv)'
    BY CInvNext, OrphanNext, Zenon
  <1>3. OrphanInv => NoOrphan
    BY Zenon DEF OrphanInv, NoOrphan
  <1>4. QED
    BY <1>1, <1>2, <1>3, PTL DEF Spec
=============================================================================
