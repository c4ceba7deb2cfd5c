------------------------- MODULE DockerServiceProofs -------------------------
(***************************************************************************)
(* The DockerService reconciler, for any containers and hosts and any      *)
(* number of lives, changes, faults and images: the tunnel server of a     *)
(* service is complete, and without faults no tunnel client escapes the    *)
(* finalizer or runs without its network.                                  *)
(*                                                                         *)
(* None of the three is inductive.  What they rest on is who may end the   *)
(* life of a service: only the worker, and only after the cache has shown  *)
(* it the deletion.  So a service the cache shows with its finalizer still *)
(* has it (Living), a sync works for the service that is there, and        *)
(* nothing takes the objects it has made.  The rest is bookkeeping of the  *)
(* reconcile that is under way (Made, Visited, Tracked).                   *)
(***************************************************************************)
EXTENDS DockerService, TLAPS

Syncing == PCs \ {"idle", "addFinalizer", "listHosts", "clean"}
OnHost == {"inspectBox", "token", "inspectClient", "remove", "create", "start", "restart",
           "connect", "status"}
Finalized == {"active", "deleting"}

\* A copy of the service is older than the service or the same.
CopyOf(s) == s.rv <= svc.rv /\ (s.rv = svc.rv => s = svc)

Versions ==
    /\ CopyOf(seen) /\ (pc # "idle" => CopyOf(loc))
    /\ svc.life # "gone" => svc.uid > 0

Living ==
    /\ pc = "addFinalizer" => loc.life = "new"
    /\ pc \in {"listHosts", "clean"} => loc.life = "deleting" /\ loc.rv <= seen.rv
    /\ pc \in Syncing => svc.life \in Finalized /\ svc.uid = loc.uid
    /\ seen.life = "active" => svc.life \in Finalized /\ svc.uid = seen.uid

\* The objects, in the order in which a sync makes them.
Made ==
    /\ \A k \in Kinds : obj[k].owner <= svc.uid
    /\ pc \in {"Secret", "ConfigMap", "Deployment"} => obj["Service"].owner = loc.uid
    /\ pc = "Deployment" => obj["ConfigMap"].owner = loc.uid

\* The host of a sync is in use, or has been left since.
Visited ==
    /\ host # "none" => host \in left \cup Used(boxes)
    /\ rep # "none" \/ pc \in OnHost => host # "none"

\* The clients of a clean-up, and the client of a sync before it is connected.
Tracked ==
    faults = 0 =>
        \A h \in Hosts : client[h].state # "none" =>
            /\ pc = "clean" => h \in todo \cup left
            /\ client[h].net = "alone" => host = h /\ pc \in {"start", "connect"}

IInv == /\ TypeOK /\ Versions /\ Living /\ Made /\ ServerComplete
        /\ Visited /\ Tracked /\ ClientsAccounted

-----------------------------------------------------------------------------
(* Operators and types. *)

LEMMA Empties == /\ Gone \in Svc /\ NoObj \in Obj /\ NoObj.owner = 0
                 /\ NoClient \in Client /\ NoClient.state = "none"
  BY DEF Gone, Svc, Lives, NoObj, Obj, NoClient, Client

LEMMA Relived ==
  ASSUME NEW s \in Svc, NEW l \in Lives, NEW t, t = [s EXCEPT !.life = l]
  PROVE  t \in Svc /\ t.life = l /\ t.uid = s.uid
  BY DEF Svc

LEMMA Stored ==
  ASSUME NEW s \in Svc, svc \in Svc, Store(s)
  PROVE  /\ svc' \in Svc /\ svc'.life = s.life /\ svc'.uid = s.uid
         /\ svc'.rv = svc.rv + 1 /\ svc.rv \in Nat
  BY DEF Svc, Store

LEMMA Selection ==
  ASSUME NEW bs \in [Boxes -> Box]
  PROVE  /\ Selected(bs) \subseteq Boxes /\ Used(bs) \subseteq Hosts
         /\ \A b \in Selected(bs) : bs[b].host \in Used(bs)
  <1>1. /\ Selected(bs) \subseteq Boxes
        /\ \A b \in Selected(bs) : bs[b].host # "none"
    BY BoxesAssumption DEF Selected
  <1>2. \A b \in Boxes : bs[b].host \in Hosts \cup {"none"}
    BY DEF Box
  <1> QED
    BY <1>1, <1>2 DEF Used

WorkerOK == /\ pc \in PCs /\ loc \in Svc /\ rep \in Boxes \cup {"none"}
            /\ host \in Hosts \cup {"none"} /\ tok \in Nat /\ todo \in SUBSET Hosts

LEMMA ReturnType == Return => WorkerOK'
  BY Empties DEF Return, WorkerOK, PCs

LEMMA GotoType == ASSUME TypeOK, NEW l \in PCs, Goto(l) PROVE WorkerOK'
  BY DEF Goto, WorkerOK, TypeOK

LEMMA FaultType == ASSUME TypeOK, Fault PROVE faults' \in Nat /\ faults' # 0
  BY DEF TypeOK, Fault

LEMMA ChangeType == ASSUME TypeOK, Changing PROVE changes' \in Nat
  BY DEF TypeOK, Changing

LEMMA RefusedType == ASSUME TypeOK, Refused PROVE svc' \in Svc /\ faults' \in Nat
  BY FaultType DEF Refused, TypeOK

LEMMA OnClientType ==
  ASSUME TypeOK, NEW c \in Client, NEW l \in PCs, OnClient(c, l)
  PROVE  TypeOK'
  <1>1. /\ UNCHANGED <<mode, svc, seen, obj, tokens, boxes, image, left, changes>>
        /\ WorkerOK' /\ faults' \in Nat
    BY ReturnType, GotoType, FaultType DEF OnClient, cluster, TypeOK
  <1>2. client' \in [Hosts -> Client]
    BY DEF OnClient, TypeOK
  <1> QED
    BY <1>1, <1>2 DEF TypeOK, WorkerOK

LEMMA OffClientType == ASSUME TypeOK, OffClient PROVE TypeOK'
  BY ReturnType DEF TypeOK, OffClient, cluster, docker, WorkerOK

LEMMA ApplyType ==
  ASSUME TypeOK, NEW k \in Kinds, NEW t \in Nat, NEW l \in PCs, Apply(k, t, l)
  PROVE  TypeOK'
  <1>1. /\ UNCHANGED <<mode, svc, seen, tokens, boxes, client, image, left, changes>>
        /\ WorkerOK' /\ faults' \in Nat
    BY ReturnType, GotoType, FaultType DEF Apply, docker, TypeOK
  <1>2. loc.uid \in Nat
    BY DEF TypeOK, Svc
  <1>3. obj' \in [Kinds -> Obj]
    BY <1>2 DEF Apply, CreateOrUpdate, TypeOK, Obj
  <1> QED
    BY <1>1, <1>3 DEF TypeOK, WorkerOK

LEMMA ServerType == ASSUME TypeOK, reconcileTunnelServer PROVE TypeOK'
  <1>0. {"Service", "Secret", "ConfigMap", "Deployment"} \subseteq PCs \cap Kinds
        /\ 0 \in Nat /\ loc.uid \in Nat /\ tok \in Nat /\ tokens \in Nat
        /\ obj["Secret"].token \in Nat
    BY DEF PCs, Kinds, TypeOK, Svc, Obj
  <1>1. CASE ApplyService \/ ApplyConfigMap
    BY <1>0, <1>1, ApplyType DEF ApplyService, ApplyConfigMap
  <1>2. CASE ApplyDeployment
    <2>1. /\ UNCHANGED <<mode, svc, seen, tokens, boxes, client, image, left, changes>>
          /\ faults' \in Nat
      BY <1>2, FaultType DEF ApplyDeployment, docker, TypeOK
    <2>2. obj' \in [Kinds -> Obj]
      BY <1>0, <1>2 DEF ApplyDeployment, CreateOrUpdate, TypeOK, Obj
    <2>3. WorkerOK'
      BY <1>2, ReturnType DEF ApplyDeployment, WorkerOK, TypeOK, PCs
    <2> QED
      BY <2>1, <2>2, <2>3 DEF TypeOK, WorkerOK
  <1>3. CASE ensureTunnelAuthSecret
    <2>1. /\ UNCHANGED <<mode, svc, seen, boxes, client, image, left, changes>>
          /\ faults' \in Nat
      BY <1>3, FaultType DEF ensureTunnelAuthSecret, docker, TypeOK
    <2>2. obj' \in [Kinds -> Obj] /\ tokens' \in Nat
      BY <1>0, <1>3 DEF ensureTunnelAuthSecret, TypeOK, Obj
    <2>3. WorkerOK'
      BY <1>0, <1>3, ReturnType DEF ensureTunnelAuthSecret, WorkerOK, TypeOK, PCs
    <2> QED
      BY <2>1, <2>2, <2>3 DEF TypeOK, WorkerOK
  <1> QED
    BY <1>1, <1>2, <1>3 DEF reconcileTunnelServer

LEMMA TunnelType == ASSUME TypeOK, Visited, reconcileTunnelClient PROVE TypeOK'
  <1>0. OnHost \subseteq PCs
    BY DEF OnHost, PCs
  <1>1. CASE InspectBox
    <2>1. WorkerOK' /\ faults' \in Nat
      BY <1>0, <1>1, ReturnType, FaultType DEF InspectBox, WorkerOK, TypeOK, OnHost
    <2> QED
      BY <1>1, <2>1 DEF InspectBox, TypeOK, WorkerOK, cluster, docker
  <1>2. CASE InspectClient
    <2>1. WorkerOK' /\ faults' \in Nat
      BY <1>0, <1>2, ReturnType, GotoType, FaultType DEF InspectClient, TypeOK, OnHost
    <2> QED
      BY <1>2, <2>1 DEF InspectClient, TypeOK, WorkerOK, cluster, docker
  <1>3. CASE RemoveClient
    BY <1>0, <1>3, Empties, OnClientType, OffClientType DEF RemoveClient, OnHost
  <1>4. CASE CreateClient
    <2>1. [state |-> "stopped", token |-> tok, image |-> image, net |-> "alone"] \in Client
      BY DEF TypeOK, Client
    <2> QED
      BY <1>0, <1>4, <2>1, OnClientType, OffClientType DEF CreateClient, OnHost
  <1>5. CASE StartClient
    <2>1. host \in Hosts
      BY <1>5 DEF StartClient, Visited, OnHost, TypeOK
    <2>2. [client[host] EXCEPT !.state = "running"] \in Client
      BY <2>1 DEF TypeOK, Client
    <2> QED
      BY <1>0, <1>5, <2>2, OnClientType, OffClientType DEF StartClient, OnHost
  <1>6. CASE ConnectClient
    <2>1. WorkerOK' /\ faults' \in Nat
      BY <1>0, <1>6, GotoType, FaultType DEF ConnectClient, TypeOK, OnHost
    <2>2. client' \in [Hosts -> Client]
      <3>1. CASE client' = [client EXCEPT ![host].net = "joined"]
        <4>1. host \in Hosts /\ client[host] \in Client
          BY <1>6 DEF ConnectClient, Visited, OnHost, TypeOK
        <4>2. [client[host] EXCEPT !.net = "joined"] \in Client
          BY <4>1 DEF Client
        <4> QED
          BY <3>1, <4>1, <4>2 DEF TypeOK
      <3> QED
        BY <1>6, <3>1 DEF ConnectClient, TypeOK
    <2> QED
      BY <1>6, <2>1, <2>2 DEF ConnectClient, TypeOK, WorkerOK, cluster
  <1>7. CASE WriteStatus
    <2>1. Activated(loc) \in Svc
      BY DEF Activated, TypeOK, Svc
    <2>2. svc' \in Svc /\ faults' \in Nat
      BY <1>7, <2>1, Stored, RefusedType DEF WriteStatus, TypeOK
    <2> QED
      BY <1>7, <2>2, ReturnType DEF WriteStatus, TypeOK, WorkerOK, docker
  <1> QED
    BY <1>1, <1>2, <1>3, <1>4, <1>5, <1>6, <1>7 DEF reconcileTunnelClient

LEMMA WorkerType ==
  ASSUME TypeOK,
         Begin \/ BeginInVain \/ AddFinalizer \/ ListHosts \/ CleanHost \/ DropFinalizer
  PROVE  TypeOK'
  <1>0. {"idle", "addFinalizer", "listHosts", "clean", "Service"} \subseteq PCs
        /\ Lives = {"new", "active", "deleting", "gone"}
    BY DEF PCs, Lives
  <1>1. CASE Begin
    <2>1. UNCHANGED <<mode, svc, seen, obj, tokens, boxes, client, image, left, faults>>
          /\ changes' \in Nat
      BY <1>1, ChangeType DEF Begin, cluster, docker, TypeOK
    <2>2. rep' \in Boxes \cup {"none"} /\ host' \in Hosts \cup {"none"}
      BY <1>1, Selection DEF Begin, TypeOK
    <2>3. pc' \in PCs /\ loc' \in Svc /\ tok' \in Nat /\ todo' \in SUBSET Hosts
      BY <1>0, <1>1 DEF Begin, FirstCall, TypeOK
    <2> QED
      BY <2>1, <2>2, <2>3 DEF TypeOK
  <1>2. CASE BeginInVain
    BY <1>2 DEF BeginInVain, vars, cluster, docker, worker, TypeOK
  <1>3. CASE AddFinalizer
    <2>1. [loc EXCEPT !.life = "active"] \in Svc
      BY <1>0, Relived DEF TypeOK
    <2>2. svc' \in Svc /\ faults' \in Nat
      BY <1>3, <2>1, Stored, RefusedType DEF AddFinalizer, TypeOK
    <2>3. WorkerOK'
      BY <1>0, <1>3, <2>2, ReturnType DEF AddFinalizer, WorkerOK, TypeOK
    <2> QED
      BY <1>3, <2>2, <2>3 DEF AddFinalizer, TypeOK, WorkerOK, docker
  <1>4. CASE ListHosts
    <2>1. todo' \in SUBSET Hosts
      BY <1>4, Selection DEF ListHosts, CleanupHosts, TypeOK
    <2> QED
      BY <1>0, <1>4, <2>1 DEF ListHosts, TypeOK, cluster, docker
  <1>5. CASE CleanHost
    <2>1. /\ todo' \in SUBSET Hosts /\ faults' \in Nat /\ client' \in [Hosts -> Client]
      BY <1>5, Empties, FaultType DEF CleanHost, TypeOK
    <2> QED
      BY <1>5, <2>1 DEF CleanHost, TypeOK, cluster
  <1>6. CASE DropFinalizer
    <2>1. [loc EXCEPT !.life = "gone"] \in Svc
      BY <1>0, Relived DEF TypeOK
    <2>2. svc' \in Svc /\ faults' \in Nat
      BY <1>6, <2>1, Stored, RefusedType DEF DropFinalizer, TypeOK
    <2> QED
      BY <1>6, <2>2, ReturnType DEF DropFinalizer, TypeOK, WorkerOK, docker
  <1> QED
    BY <1>1, <1>2, <1>3, <1>4, <1>5, <1>6

LEMMA EnvironmentType == ASSUME TypeOK, Environment PROVE TypeOK'
  <1>1. CASE UserCreate
    <2>1. svc' \in Svc
      BY <1>1 DEF UserCreate, TypeOK, Svc, Lives
    <2> QED
      BY <1>1, <2>1 DEF UserCreate, TypeOK, docker, worker
  <1>2. CASE UserDelete
    <2>1. \E l \in Lives : Store([svc EXCEPT !.life = l])
      BY <1>2 DEF UserDelete, TypeOK, Svc, Lives
    <2>2. svc' \in Svc
      BY <2>1, Relived, Stored DEF TypeOK
    <2> QED
      BY <1>2, <2>2 DEF UserDelete, TypeOK, docker, worker
  <1>3. CASE Deliver
    BY <1>3 DEF Deliver, TypeOK, docker, worker
  <1>4. CASE LoseSecret
    <2>1. obj' \in [Kinds -> Obj] /\ changes' \in Nat
      BY <1>4, Empties, ChangeType DEF LoseSecret, TypeOK
    <2> QED
      BY <1>4, <2>1 DEF LoseSecret, TypeOK, docker, worker
  <1>5. CASE Crash
    <2>1. image' \in Nat
      BY <1>5, BoundsAssumption DEF Crash, TypeOK
    <2>2. WorkerOK' /\ faults' \in Nat
      BY <1>5, ReturnType, FaultType DEF Crash
    <2> QED
      BY <1>5, <2>1, <2>2 DEF Crash, TypeOK, WorkerOK
  <1>6. ASSUME NEW k \in Kinds, Collect(k) PROVE TypeOK'
    <2>1. obj' \in [Kinds -> Obj]
      BY <1>6, Empties DEF Collect, TypeOK
    <2> QED
      BY <1>6, <2>1 DEF Collect, TypeOK, docker, worker
  <1>7. ASSUME NEW b \in Boxes, Launch(b) PROVE TypeOK'
    <2>1. boxes' \in [Boxes -> Box]
      BY <1>7 DEF Launch, TypeOK, Box
    <2> QED
      BY <1>7, <2>1 DEF Launch, TypeOK, cluster, docker, worker
  <1>8. ASSUME NEW b \in Boxes, NEW h \in Hosts \cup {"none"}, ChangeBox(b, h) PROVE TypeOK'
    <2>1. boxes' \in [Boxes -> Box] /\ changes' \in Nat
      BY <1>8, ChangeType DEF ChangeBox, TypeOK, Box
    <2>2. left' \in SUBSET Hosts
      BY <1>8, Selection DEF ChangeBox, TypeOK
    <2> QED
      BY <1>8, <2>1, <2>2 DEF ChangeBox, TypeOK, cluster, docker, worker
  <1>9. ASSUME NEW h \in Hosts, StopClient(h) \/ LoseClient(h) PROVE TypeOK'
    <2>1. client' \in [Hosts -> Client] /\ changes' \in Nat
      <3>1. [client[h] EXCEPT !.state = "stopped"] \in Client
        BY DEF TypeOK, Client
      <3> QED
        BY <1>9, <3>1, Empties, ChangeType DEF StopClient, LoseClient, TypeOK
    <2> QED
      BY <1>9, <2>1 DEF StopClient, LoseClient, TypeOK, cluster, worker
  <1> QED
    BY <1>1, <1>2, <1>3, <1>4, <1>5, <1>6, <1>7, <1>8, <1>9 DEF Environment

LEMMA TypeStep == ASSUME TypeOK, Visited, Next PROVE TypeOK'
  BY WorkerType, ServerType, TunnelType, EnvironmentType DEF Next, Reconcile

-----------------------------------------------------------------------------
(* Versions and lives. *)

\* A worker that writes nothing goes on with its copy, or returns.
LEMMA LifeFrame ==
  ASSUME Versions, Living, UNCHANGED <<svc, seen>>,
         \/ pc' = "idle"
         \/ /\ loc' = loc
            /\ \/ pc' = pc
               \/ pc = "listHosts" /\ pc' = "clean"
               \/ pc \in Syncing /\ pc' \in Syncing
  PROVE  Versions' /\ Living'
  <1>1. Versions'
    BY DEF Versions, CopyOf, Syncing
  <1>2. Living'
    BY DEF Living, Syncing
  <1> QED
    BY <1>1, <1>2

\* An accepted write is made on a copy of the newest version.
LEMMA AcceptedIsNewest ==
  ASSUME Versions, pc # "idle", Accepts PROVE loc = svc
  BY DEF Versions, CopyOf, Accepts

LEMMA Older ==
  ASSUME NEW s \in Svc, CopyOf(s), svc \in Svc, svc' \in Svc, svc'.rv = svc.rv + 1
  PROVE  CopyOf(s)' /\ s.rv < svc'.rv
  BY DEF CopyOf, Svc

LEMMA ReconcileLife ==
  ASSUME TypeOK, TypeOK', Versions, Living, Reconcile
  PROVE  Versions' /\ Living'
  <1>0. /\ svc \in Svc /\ seen \in Svc /\ loc \in Svc /\ svc' \in Svc
        /\ svc.life \in Lives /\ seen.life \in Lives
        /\ Lives = {"new", "active", "deleting", "gone"}
    BY DEF TypeOK, Svc, Lives
  <1>1. CASE Begin
    <2>1. /\ UNCHANGED <<svc, seen>> /\ loc' = seen /\ pc' = FirstCall(seen)
          /\ seen.life # "gone"
      BY <1>1 DEF Begin, cluster
    <2>2. /\ pc' \in {"listHosts", "addFinalizer", "Service"}
          /\ pc' = "listHosts" <=> seen.life = "deleting"
          /\ pc' = "addFinalizer" <=> seen.life = "new"
      BY <1>0, <2>1 DEF FirstCall
    <2>3. seen.rv <= seen.rv
      BY <1>0 DEF Svc
    <2>4. Versions'
      BY <2>1 DEF Versions, CopyOf
    <2>5. Living'
      BY <1>0, <2>1, <2>2, <2>3 DEF Living, Syncing
    <2> QED
      BY <2>4, <2>5
  <1>2. CASE BeginInVain
    BY <1>2, LifeFrame DEF BeginInVain, vars, cluster, worker
  <1>3. CASE AddFinalizer
    <2>1. CASE Refused /\ Return
      BY <1>3, <2>1, LifeFrame DEF AddFinalizer, Refused, Return
    <2>2. CASE Accepts /\ Store([loc EXCEPT !.life = "active"]) /\ loc' = svc' /\ pc' = "Service"
      <3>1. loc = svc /\ svc.life = "new" /\ seen' = seen
        BY <1>3, <2>2, AcceptedIsNewest DEF AddFinalizer, Living
      <3>2. /\ [loc EXCEPT !.life = "active"] \in Svc
            /\ [loc EXCEPT !.life = "active"].life = "active"
            /\ [loc EXCEPT !.life = "active"].uid = svc.uid
        BY <1>0, <3>1, Relived
      <3>3. svc'.life = "active" /\ svc'.uid = svc.uid /\ svc'.rv = svc.rv + 1
        BY <1>0, <2>2, <3>2, Stored
      <3>4. CopyOf(seen)' /\ CopyOf(loc)'
        <4>1. CopyOf(seen)'
          BY <1>0, <3>1, <3>3, Older DEF Versions, CopyOf
        <4>2. svc'.rv <= svc'.rv
          BY <1>0 DEF Svc
        <4> QED
          BY <2>2, <4>1, <4>2 DEF CopyOf
      <3>5. Versions'
        BY <1>0, <3>1, <3>3, <3>4 DEF Versions, Svc
      <3>6. Living'
        BY <2>2, <3>1, <3>3 DEF Living, Syncing, Finalized
      <3> QED
        BY <3>5, <3>6
    <2> QED
      BY <1>3, <2>1, <2>2 DEF AddFinalizer
  <1>4. CASE ListHosts \/ CleanHost
    BY <1>4, LifeFrame DEF ListHosts, CleanHost, cluster
  <1>5. CASE DropFinalizer
    <2>1. CASE Refused
      BY <1>5, <2>1, LifeFrame DEF DropFinalizer, Refused, Return
    <2>2. CASE Accepts /\ Store([loc EXCEPT !.life = "gone"])
      <3>1. /\ loc = svc /\ svc.life = "deleting" /\ seen' = seen /\ pc' = "idle"
            /\ loc.rv <= seen.rv
        BY <1>5, <2>2, AcceptedIsNewest DEF DropFinalizer, Living, Return
      <3>2. seen = svc
        BY <1>0, <3>1 DEF Versions, CopyOf, Svc
      <3>3. /\ [loc EXCEPT !.life = "gone"] \in Svc
            /\ [loc EXCEPT !.life = "gone"].life = "gone"
        BY <1>0, Relived
      <3>4. svc'.life = "gone" /\ svc'.rv = svc.rv + 1
        BY <1>0, <2>2, <3>3, Stored
      <3>5. CopyOf(seen)'
        BY <1>0, <3>1, <3>4, Older DEF Versions, CopyOf
      <3> QED
        BY <3>1, <3>2, <3>4, <3>5 DEF Versions, Living, Syncing
    <2> QED
      BY <1>5, <2>1, <2>2 DEF DropFinalizer
  <1>6. CASE reconcileTunnelServer
    <2>1. UNCHANGED <<svc, seen>>
      BY <1>6
      DEF reconcileTunnelServer, ApplyService, ApplyConfigMap, Apply, ApplyDeployment,
          ensureTunnelAuthSecret
    <2>2. pc' = "idle" \/ (loc' = loc /\ pc \in Syncing /\ pc' \in Syncing)
      BY <1>6
      DEF reconcileTunnelServer, ApplyService, ApplyConfigMap, Apply, ApplyDeployment,
          ensureTunnelAuthSecret, Goto, Return, Syncing, PCs
    <2> QED
      BY <2>1, <2>2, LifeFrame
  <1>7. CASE InspectBox \/ InspectClient \/ RemoveClient \/ CreateClient \/ StartClient \/ ConnectClient
    <2>1. UNCHANGED <<svc, seen>>
      BY <1>7
      DEF InspectBox, InspectClient, RemoveClient, CreateClient, StartClient, ConnectClient,
          OnClient, OffClient, cluster
    <2>2. pc' = "idle" \/ (loc' = loc /\ pc \in Syncing /\ pc' \in Syncing)
      BY <1>7
      DEF InspectBox, InspectClient, RemoveClient, CreateClient, StartClient, ConnectClient,
          OnClient, OffClient, Goto, Return, Syncing, PCs
    <2> QED
      BY <2>1, <2>2, LifeFrame
  <1>8. CASE WriteStatus
    <2>0. pc' = "idle" /\ seen' = seen /\ pc = "status"
      BY <1>8 DEF WriteStatus, Return
    <2>1. CASE UNCHANGED svc
      BY <2>0, <2>1, LifeFrame
    <2>2. CASE Accepts /\ Store(Activated(loc))
      <3>1. loc = svc
        BY <2>0, <2>2, AcceptedIsNewest
      <3>2. /\ Activated(loc) \in Svc /\ Activated(loc).life = svc.life
            /\ Activated(loc).uid = svc.uid
        BY <1>0, <3>1 DEF Activated, Svc
      <3>3. svc'.life = svc.life /\ svc'.uid = svc.uid /\ svc'.rv = svc.rv + 1
        BY <1>0, <2>2, <3>2, Stored
      <3>4. CopyOf(seen)'
        BY <1>0, <2>0, <3>3, Older DEF Versions, CopyOf
      <3> QED
        BY <2>0, <3>3, <3>4 DEF Versions, Living, Syncing
    <2> QED
      BY <1>8, <2>1, <2>2 DEF WriteStatus, Refused
  <1> QED
    BY <1>1, <1>2, <1>3, <1>4, <1>5, <1>6, <1>7, <1>8 DEF Reconcile, reconcileTunnelClient

\* What others do to the service: they give it a newer version.
LEMMA EnvironmentLife ==
  ASSUME TypeOK, TypeOK', Versions, Living, Environment
  PROVE  Versions' /\ Living'
  <1>0. /\ svc \in Svc /\ seen \in Svc /\ loc \in Svc /\ svc' \in Svc
        /\ svc.uid \in Nat /\ svc.rv \in Nat /\ svc.rv <= svc.rv
        /\ Lives = {"new", "active", "deleting", "gone"}
    BY DEF TypeOK, Svc, Lives
  <1>1. CASE UserCreate
    <2>1. /\ svc.life = "gone" /\ svc'.life = "new" /\ svc'.uid = svc.uid + 1
          /\ svc'.rv = svc.rv + 1 /\ UNCHANGED <<seen, pc, loc>>
      BY <1>1 DEF UserCreate, worker
    <2>2. CopyOf(seen)' /\ (pc # "idle" => CopyOf(loc)')
      BY <1>0, <2>1, Older DEF Versions, CopyOf
    <2>3. svc'.uid > 0
      BY <1>0, <2>1
    <2> QED
      BY <2>1, <2>2, <2>3 DEF Versions, Living, Finalized
  <1>2. CASE UserDelete
    <2>1. PICK l \in {"gone", "deleting"} :
             /\ Store([svc EXCEPT !.life = l]) /\ UNCHANGED <<seen, pc, loc>>
             /\ (svc.life = "active" /\ l = "deleting") \/ (svc.life = "new" /\ l = "gone")
      BY <1>0, <1>2 DEF UserDelete, worker, Svc
    <2>2. /\ [svc EXCEPT !.life = l] \in Svc /\ [svc EXCEPT !.life = l].life = l
          /\ [svc EXCEPT !.life = l].uid = svc.uid
      BY <1>0, Relived
    <2>3. svc'.life = l /\ svc'.uid = svc.uid /\ svc'.rv = svc.rv + 1
      BY <1>0, <2>1, <2>2, Stored
    <2>4. CopyOf(seen)' /\ (pc # "idle" => CopyOf(loc)')
      BY <1>0, <2>1, <2>3, Older DEF Versions, CopyOf
    <2> QED
      BY <2>1, <2>3, <2>4 DEF Versions, Living, Finalized
  <1>3. CASE Deliver
    <2>1. seen' = svc /\ UNCHANGED <<svc, pc, loc>>
      BY <1>3 DEF Deliver, worker
    <2>2. pc \in {"listHosts", "clean"} => loc.rv <= svc.rv
      BY DEF Versions, CopyOf
    <2> QED
      BY <1>0, <2>1, <2>2 DEF Versions, CopyOf, Living, Finalized
  <1>4. CASE Crash
    <2>1. seen' = svc /\ UNCHANGED svc /\ pc' = "idle"
      BY <1>4 DEF Crash, Return
    <2> QED
      BY <1>0, <2>1 DEF Versions, CopyOf, Living, Finalized, Syncing
  <1>5. CASE \/ LoseSecret
             \/ \E k \in Kinds : Collect(k)
             \/ \E b \in Boxes : Launch(b) \/ \E h \in Hosts \cup {"none"} : ChangeBox(b, h)
             \/ \E h \in Hosts : StopClient(h) \/ LoseClient(h)
    BY <1>5, LifeFrame DEF LoseSecret, Collect, Launch, ChangeBox, StopClient, LoseClient, worker, cluster
  <1> QED
    BY <1>1, <1>2, <1>3, <1>4, <1>5 DEF Environment

-----------------------------------------------------------------------------
(* The objects. *)

LEMMA ServerFrame ==
  ASSUME Made, ServerComplete, obj' = obj, svc'.uid = svc.uid,
         svc.life = "gone" => svc'.life = "gone",
         pc' \notin {"Secret", "ConfigMap", "Deployment"} \/ UNCHANGED <<pc, loc>>
  PROVE  Made' /\ ServerComplete'
  <1>1. Made'
    BY DEF Made
  <1>2. ServerComplete'
    BY DEF ServerComplete
  <1> QED
    BY <1>1, <1>2

LEMMA ReconcileServer ==
  ASSUME TypeOK, Versions, Living, Made, ServerComplete, Reconcile
  PROVE  Made' /\ ServerComplete'
  <1>0. /\ svc \in Svc /\ loc \in Svc /\ obj \in [Kinds -> Obj]
        /\ Kinds = {"Service", "Secret", "ConfigMap", "Deployment"}
        /\ svc.uid \in Nat /\ svc.uid <= svc.uid
        /\ \A k \in Kinds : obj[k].owner \in Nat
    BY DEF TypeOK, Kinds, Svc, Obj
  <1>1. CASE Begin \/ BeginInVain \/ ListHosts \/ CleanHost
    <2>1. UNCHANGED <<obj, svc>>
      BY <1>1 DEF Begin, BeginInVain, ListHosts, CleanHost, vars, cluster
    <2>2. pc' \notin {"Secret", "ConfigMap", "Deployment"} \/ UNCHANGED <<pc, loc>>
      BY <1>1 DEF Begin, FirstCall, BeginInVain, ListHosts, CleanHost, vars, worker
    <2> QED
      BY <2>1, <2>2, ServerFrame
  <1>2. CASE AddFinalizer \/ DropFinalizer \/ WriteStatus
    <2>1. obj' = obj /\ pc' \in {"idle", "Service"} /\ pc # "idle"
      BY <1>2 DEF AddFinalizer, DropFinalizer, WriteStatus, Return
    <2>2. svc'.uid = svc.uid /\ (svc.life = "gone" => svc'.life = "gone")
      <3>1. CASE UNCHANGED svc
        BY <3>1
      <3>2. CASE Accepts /\ \E s \in Svc : Store(s) /\ s.uid = loc.uid
        BY <1>0, <2>1, <3>2, AcceptedIsNewest, Stored DEF Accepts
      <3>3. /\ [loc EXCEPT !.life = "active"] \in Svc
            /\ [loc EXCEPT !.life = "active"].uid = loc.uid
            /\ [loc EXCEPT !.life = "gone"] \in Svc
            /\ [loc EXCEPT !.life = "gone"].uid = loc.uid
            /\ Activated(loc) \in Svc /\ Activated(loc).uid = loc.uid
        BY <1>0 DEF Svc, Lives, Activated
      <3> QED
        BY <1>2, <3>1, <3>2, <3>3 DEF AddFinalizer, DropFinalizer, WriteStatus, Refused
    <2> QED
      BY <2>1, <2>2, ServerFrame
  <1>3. CASE /\ pc' = "idle" /\ UNCHANGED <<obj, svc>>
    BY <1>3, ServerFrame
  <1>4. ASSUME NEW k \in Kinds, NEW t \in Nat, CreateOrUpdate(k, t), pc \in Syncing,
               UNCHANGED svc
        PROVE  /\ \A j \in Kinds : obj'[j] = IF j = k THEN [owner |-> svc.uid, token |-> t]
                                             ELSE obj[j]
               /\ \A j \in Kinds : obj'[j].owner <= svc.uid
               /\ loc.uid = svc.uid
    <2>1. loc.uid = svc.uid
      BY <1>4 DEF Living
    <2>2. \A j \in Kinds : obj'[j] = IF j = k THEN [owner |-> svc.uid, token |-> t] ELSE obj[j]
      BY <1>0, <1>4, <2>1 DEF CreateOrUpdate
    <2>3. \A j \in Kinds : obj'[j].owner = IF j = k THEN svc.uid ELSE obj[j].owner
      BY <2>2
    <2> QED
      BY <1>0, <2>1, <2>2, <2>3 DEF Made
  <1>5. CASE ApplyService /\ pc' # "idle"
    <2>1. /\ CreateOrUpdate("Service", 0) /\ pc \in Syncing /\ pc' = "Secret"
          /\ UNCHANGED <<svc, loc>>
      BY <1>5 DEF ApplyService, Apply, Goto, Return, Syncing, PCs
    <2>2. /\ \A j \in Kinds : obj'[j].owner <= svc.uid
          /\ obj'["Service"].owner = svc.uid /\ loc.uid = svc.uid
          /\ obj'["ConfigMap"] = obj["ConfigMap"] /\ obj'["Deployment"] = obj["Deployment"]
      <3>1. "Service" \in Kinds /\ 0 \in Nat
        BY <1>0
      <3>2. /\ \A j \in Kinds : obj'[j] = IF j = "Service" THEN [owner |-> svc.uid, token |-> 0]
                                          ELSE obj[j]
            /\ \A j \in Kinds : obj'[j].owner <= svc.uid
            /\ loc.uid = svc.uid
        BY <1>4, <2>1, <3>1, Zenon
      <3> QED
        BY <1>0, <3>2
    <2> QED
      BY <2>1, <2>2 DEF Made, ServerComplete
  <1>6. CASE ApplyConfigMap /\ pc' # "idle"
    <2>1. /\ CreateOrUpdate("ConfigMap", 0) /\ pc \in Syncing /\ pc' = "Deployment"
          /\ UNCHANGED <<svc, loc>> /\ pc = "ConfigMap"
      BY <1>6 DEF ApplyConfigMap, Apply, Goto, Return, Syncing, PCs
    <2>2. /\ \A j \in Kinds : obj'[j].owner <= svc.uid
          /\ obj'["ConfigMap"].owner = svc.uid /\ loc.uid = svc.uid
          /\ obj'["Service"] = obj["Service"] /\ obj'["Deployment"] = obj["Deployment"]
      <3>1. "ConfigMap" \in Kinds /\ 0 \in Nat
        BY <1>0
      <3>2. /\ \A j \in Kinds : obj'[j] = IF j = "ConfigMap" THEN [owner |-> svc.uid, token |-> 0]
                                          ELSE obj[j]
            /\ \A j \in Kinds : obj'[j].owner <= svc.uid
            /\ loc.uid = svc.uid
        BY <1>4, <2>1, <3>1, Zenon
      <3> QED
        BY <1>0, <3>2
    <2> QED
      BY <2>1, <2>2 DEF Made, ServerComplete
  <1>7. CASE ApplyDeployment
    <2>1. CASE UNCHANGED obj
      BY <1>7, <2>1, ServerFrame DEF ApplyDeployment, Return
    <2>2. CASE CreateOrUpdate("Deployment", tok)
      <3>1. pc \in Syncing /\ UNCHANGED svc /\ tok \in Nat /\ pc = "Deployment"
            /\ pc' \in {"inspectBox", "idle"}
        BY <1>7 DEF ApplyDeployment, Syncing, PCs, TypeOK, Return
      <3>2. /\ \A j \in Kinds : obj'[j].owner <= svc.uid
            /\ obj'["ConfigMap"] = obj["ConfigMap"] /\ obj'["Service"] = obj["Service"]
            /\ loc.uid = svc.uid
        BY <1>0, <1>4, <2>2, <3>1
      <3>3. Made'
        BY <3>1, <3>2 DEF Made
      <3>4. ServerComplete'
        BY <3>1, <3>2 DEF Made, ServerComplete
      <3> QED
        BY <3>3, <3>4
    <2> QED
      BY <1>7, <2>1, <2>2 DEF ApplyDeployment
  <1>8. CASE ensureTunnelAuthSecret /\ pc' # "idle"
    <2>1. /\ UNCHANGED <<svc, loc>> /\ pc \in {"Secret", "token"} /\ pc \in Syncing
          /\ pc' = IF pc = "Secret" THEN "ConfigMap" ELSE "inspectClient"
      BY <1>8 DEF ensureTunnelAuthSecret, Return, Syncing, PCs
    <2>2. loc.uid = svc.uid
      BY <2>1 DEF Living
    <2>3. UNCHANGED obj \/ \E t : obj' = [obj EXCEPT !["Secret"] = [owner |-> loc.uid, token |-> t]]
      BY <1>8 DEF ensureTunnelAuthSecret, Return
    <2>4. /\ \A j \in Kinds : obj'[j].owner <= svc.uid
          /\ \A j \in Kinds : j # "Secret" => obj'[j] = obj[j]
      <3>1. CASE UNCHANGED obj
        BY <3>1 DEF Made
      <3>2. ASSUME NEW t, obj' = [obj EXCEPT !["Secret"] = [owner |-> loc.uid, token |-> t]]
            PROVE  /\ \A j \in Kinds : obj'[j].owner <= svc.uid
                   /\ \A j \in Kinds : j # "Secret" => obj'[j] = obj[j]
        <4>1. \A j \in Kinds : obj'[j].owner = IF j = "Secret" THEN svc.uid ELSE obj[j].owner
          BY <1>0, <2>2, <3>2
        <4> QED
          BY <1>0, <3>2, <4>1 DEF Made
      <3> QED
        BY <2>3, <3>1, <3>2
    <2>5. Made'
      BY <1>0, <2>1, <2>4 DEF Made
    <2>6. ServerComplete'
      BY <1>0, <2>1, <2>4 DEF ServerComplete
    <2> QED
      BY <2>5, <2>6
  <1>9. CASE /\ reconcileTunnelServer /\ pc' = "idle" /\ ~ApplyDeployment
    BY <1>9, <1>3
    DEF reconcileTunnelServer, ApplyService, ApplyConfigMap, Apply, Goto, ensureTunnelAuthSecret
  <1>10. CASE InspectBox \/ InspectClient \/ RemoveClient \/ CreateClient \/ StartClient \/ ConnectClient
    <2>1. UNCHANGED <<svc, obj>>
      BY <1>10
      DEF InspectBox, InspectClient, RemoveClient, CreateClient, StartClient, ConnectClient,
          OnClient, OffClient, cluster
    <2>2. pc' \notin {"Secret", "ConfigMap", "Deployment"}
      BY <1>10
      DEF InspectBox, InspectClient, RemoveClient, CreateClient, StartClient, ConnectClient,
          OnClient, OffClient, Goto, Return
    <2> QED
      BY <2>1, <2>2, ServerFrame
  <1> QED
    BY <1>1, <1>2, <1>5, <1>6, <1>7, <1>8, <1>9, <1>10
    DEF Reconcile, reconcileTunnelServer, reconcileTunnelClient

LEMMA EnvironmentServer ==
  ASSUME TypeOK, Versions, Living, Made, ServerComplete, Environment
  PROVE  Made' /\ ServerComplete'
  <1>0. /\ svc \in Svc /\ obj \in [Kinds -> Obj] /\ svc.uid \in Nat
        /\ Kinds = {"Service", "Secret", "ConfigMap", "Deployment"}
        /\ \A k \in Kinds : obj[k].owner \in Nat /\ obj[k].owner <= svc.uid
    BY DEF TypeOK, Kinds, Svc, Obj, Made
  <1>1. CASE UserCreate
    <2>1. svc'.uid = svc.uid + 1 /\ UNCHANGED <<obj, pc, loc>>
      BY <1>1 DEF UserCreate, worker
    <2>2. \A k \in Kinds : obj[k].owner < svc'.uid
      BY <1>0, <2>1
    <2> QED
      BY <1>0, <2>1, <2>2 DEF Made, ServerComplete
  <1>2. CASE UserDelete
    <2>1. svc'.uid = svc.uid /\ svc.life # "gone" /\ UNCHANGED <<obj, pc, loc>>
      BY <1>0, <1>2 DEF UserDelete, Store, worker, Svc
    <2> QED
      BY <2>1, ServerFrame
  <1>3. CASE \/ Deliver \/ Crash
             \/ \E b \in Boxes : Launch(b) \/ \E h \in Hosts \cup {"none"} : ChangeBox(b, h)
             \/ \E h \in Hosts : StopClient(h) \/ LoseClient(h)
    <2>1. UNCHANGED <<svc, obj>> /\ (pc' = "idle" \/ UNCHANGED <<pc, loc>>)
      BY <1>3 DEF Deliver, Crash, Return, Launch, ChangeBox, StopClient, LoseClient, worker, cluster
    <2> QED
      BY <2>1, ServerFrame
  <1>4. ASSUME NEW k \in Kinds, obj' = [obj EXCEPT ![k] = NoObj], UNCHANGED <<svc, pc, loc>>,
               k = "Secret" \/ svc.life = "gone" \/ obj[k].owner # svc.uid
        PROVE  Made' /\ ServerComplete'
    <2>1. \A j \in Kinds : obj'[j].owner = IF j = k THEN 0 ELSE obj[j].owner
      BY <1>0, <1>4, Empties
    <2>2. \A j \in Kinds : obj'[j].owner <= svc.uid
      BY <1>0, <2>1
    <2>3. pc \in Syncing => svc.life # "gone" /\ svc.uid = loc.uid
      BY DEF Living, Finalized
    <2>4. {"Secret", "ConfigMap", "Deployment"} \subseteq Syncing
      BY DEF Syncing, PCs
    <2>5. Made'
      BY <1>0, <1>4, <2>1, <2>2, <2>3, <2>4 DEF Made
    <2>6. svc.life # "gone" => svc.uid # 0
      BY <1>0 DEF Versions
    <2>7. ServerComplete'
      BY <1>0, <1>4, <2>1, <2>6 DEF ServerComplete
    <2> QED
      BY <2>5, <2>7
  <1>5. CASE LoseSecret
    BY <1>0, <1>4, <1>5 DEF LoseSecret, worker
  <1>6. ASSUME NEW k \in Kinds, Collect(k) PROVE Made' /\ ServerComplete'
    BY <1>4, <1>6 DEF Collect, worker
  <1> QED
    BY <1>1, <1>2, <1>3, <1>5, <1>6 DEF Environment

-----------------------------------------------------------------------------
(* The tunnel clients. *)

\* What is in use, or was.
Known == left \cup Used(boxes)

LEMMA KnownFrame ==
  UNCHANGED <<mode, boxes, left>> => left' = left /\ Used(boxes)' = Used(boxes) /\ Known' = Known
  BY DEF Known, Used, Selected

\* The clients are where they were, or fewer; the host of the call is the same, or
\* there is none, and a clean-up has not gone on.
LEMMA ClientFrame ==
  ASSUME TypeOK, Visited, Tracked, ClientsAccounted,
         faults' # 0 \/ faults' = faults,
         left \subseteq left', Known \subseteq Known',
         faults' = 0 =>
            /\ \A h \in Hosts : client'[h].state # "none" => client[h].state # "none"
            /\ svc.life \in Finalized => svc'.life \in Finalized
            /\ pc' = "clean" => pc = "clean" /\ todo' = todo
            /\ \A h \in Hosts : client'[h].state # "none" /\ client'[h].net = "alone" =>
                  host' = h /\ pc' \in {"start", "connect"},
         host' = host \/ host' = "none",
         rep' # "none" \/ pc' \in OnHost => host' # "none"
  PROVE  Visited' /\ Tracked' /\ ClientsAccounted'
  <1>1. Visited'
    BY DEF Visited, Known
  <1>2. Tracked'
    BY DEF Tracked
  <1>3. ClientsAccounted'
    BY DEF ClientsAccounted, Known, Finalized
  <1> QED
    BY <1>1, <1>2, <1>3

\* A call that ends for want of something to do, or with a fault.
LEMMA ReturnFrame ==
  ASSUME TypeOK, Visited, Tracked, ClientsAccounted, Return,
         UNCHANGED <<mode, boxes, left>>,
         \/ faults' # 0
         \/ /\ UNCHANGED <<faults, client>>
            /\ svc.life \in Finalized => svc'.life \in Finalized
            /\ pc \notin {"start", "connect"} \/ client[host].state = "none"
  PROVE  Visited' /\ Tracked' /\ ClientsAccounted'
  <1>1. pc' = "idle" /\ rep' = "none" /\ host' = "none" /\ pc' \notin OnHost
        /\ left \subseteq left' /\ Known \subseteq Known'
    BY KnownFrame DEF Return, OnHost
  <1>2. CASE faults' # 0
    BY <1>1, <1>2, ClientFrame
  <1>3. CASE /\ UNCHANGED <<faults, client>>
             /\ svc.life \in Finalized => svc'.life \in Finalized
             /\ (pc \notin {"start", "connect"} \/ client[host].state = "none")
    <2>1. faults' = 0 => ~ \E h \in Hosts : client'[h].state # "none" /\ client'[h].net = "alone"
      BY <1>3 DEF Tracked
    <2> QED
      BY <1>1, <1>3, <2>1, ClientFrame
  <1> QED
    BY <1>2, <1>3

\* A call of a sync that goes on, before there is a new client or after.
LEMMA SyncFrame ==
  ASSUME TypeOK, Visited, Tracked, ClientsAccounted,
         UNCHANGED <<mode, boxes, left, faults, client, host>>,
         svc.life \in Finalized => svc'.life \in Finalized,
         pc \notin {"start", "connect"}, pc' # "clean",
         rep' # "none" \/ pc' \in OnHost => host # "none"
  PROVE  Visited' /\ Tracked' /\ ClientsAccounted'
  <1>1. left \subseteq left' /\ Known \subseteq Known'
    BY KnownFrame
  <1>2. faults' = 0 => ~ \E h \in Hosts : client'[h].state # "none" /\ client'[h].net = "alone"
    BY DEF Tracked
  <1> QED
    BY <1>1, <1>2, ClientFrame

LEMMA FinalizerClients ==
  ASSUME TypeOK, Versions, Living, Visited, Tracked, ClientsAccounted,
         Begin \/ BeginInVain \/ AddFinalizer \/ ListHosts \/ CleanHost \/ DropFinalizer
  PROVE  Visited' /\ Tracked' /\ ClientsAccounted'
  <1>0. /\ svc \in Svc /\ loc \in Svc /\ boxes \in [Boxes -> Box]
        /\ client \in [Hosts -> Client]
    BY DEF TypeOK
  <1>1. CASE Begin
    <2>1. /\ UNCHANGED <<mode, boxes, left, faults, client, svc>> /\ pc = "idle"
          /\ pc' \in {"listHosts", "addFinalizer", "Service"}
      BY <1>1 DEF Begin, FirstCall, cluster, docker
    <2>2. CASE UNCHANGED <<rep, host>>
      BY <2>1, <2>2, SyncFrame DEF Visited, OnHost
    <2>3. ASSUME NEW b \in Selected(boxes), host' = boxes[b].host
          PROVE  Visited' /\ Tracked' /\ ClientsAccounted'
      <3>1. host' \in Used(boxes) /\ host' \in Hosts
        BY <1>0, <2>3, Selection
      <3>2. Visited'
        BY <2>1, <3>1, KnownFrame, BoxesAssumption DEF Visited
      <3>3. Tracked'
        BY <2>1 DEF Tracked
      <3>4. ClientsAccounted'
        BY <2>1, KnownFrame DEF ClientsAccounted
      <3> QED
        BY <3>2, <3>3, <3>4
    <2> QED
      BY <1>1, <2>2, <2>3 DEF Begin
  <1>2. CASE BeginInVain
    <2>1. UNCHANGED <<mode, boxes, left, faults, client, host, svc, rep, pc>> /\ pc = "idle"
      BY <1>2 DEF BeginInVain, vars, cluster, docker, worker
    <2> QED
      BY <2>1, SyncFrame DEF Visited
  <1>3. CASE AddFinalizer
    <2>0. UNCHANGED <<mode, boxes, left, client>> /\ pc = "addFinalizer"
      BY <1>3 DEF AddFinalizer, docker
    <2>1. CASE Refused /\ Return
      <3>1. UNCHANGED svc /\ (UNCHANGED faults \/ faults' # 0)
        BY <2>1, FaultType DEF Refused
      <3> QED
        BY <2>0, <2>1, <3>1, ReturnFrame
    <2>2. CASE Accepts /\ Store([loc EXCEPT !.life = "active"]) /\ pc' = "Service" /\ UNCHANGED <<rep, host, faults>>
      <3>1. /\ [loc EXCEPT !.life = "active"] \in Svc
            /\ [loc EXCEPT !.life = "active"].life = "active"
        BY <1>0, Relived DEF Lives
      <3>2. svc'.life \in Finalized
        BY <1>0, <2>2, <3>1, Stored DEF Finalized
      <3> QED
        BY <2>0, <2>2, <3>2, SyncFrame DEF Visited, OnHost
    <2> QED
      BY <1>3, <2>1, <2>2 DEF AddFinalizer
  <1>4. CASE ListHosts
    <2>1. /\ UNCHANGED <<mode, boxes, left, faults, client, host, rep, svc>>
          /\ pc = "listHosts" /\ pc' = "clean" /\ todo' = Used(boxes)
      BY <1>4 DEF ListHosts, CleanupHosts, cluster, docker
    <2>2. Visited'
      BY <2>1, KnownFrame DEF Visited, OnHost
    <2>3. Tracked'
      BY <2>1 DEF Tracked, ClientsAccounted
    <2>4. ClientsAccounted'
      BY <2>1, KnownFrame DEF ClientsAccounted
    <2> QED
      BY <2>2, <2>3, <2>4
  <1>5. CASE CleanHost
    <2>1. /\ UNCHANGED <<mode, boxes, left, pc, host, rep, svc>> /\ pc = "clean"
          /\ Visited' /\ faults \in Nat
      BY <1>5, KnownFrame DEF CleanHost, cluster, Visited, OnHost, TypeOK
    <2>2. CASE faults' # 0
      BY <2>1, <2>2 DEF Tracked, ClientsAccounted
    <2>3. CASE faults' = 0
      <3>1. PICK h \in todo : /\ todo' = todo \ {h}
                              /\ client' = [client EXCEPT ![h] = NoClient] /\ UNCHANGED faults
        BY <1>5, <2>3, FaultType DEF CleanHost
      <3>2. \A g \in Hosts : client'[g].state # "none" => g # h /\ client'[g] = client[g]
        BY <1>0, <3>1, Empties
      <3>3. Tracked'
        BY <2>1, <3>1, <3>2 DEF Tracked
      <3>4. ClientsAccounted'
        BY <2>1, <3>1, <3>2, KnownFrame DEF ClientsAccounted
      <3> QED
        BY <2>1, <3>3, <3>4
    <2> QED
      BY <2>2, <2>3
  <1>6. CASE DropFinalizer
    <2>0. UNCHANGED <<mode, boxes, left, client>> /\ pc = "clean" /\ Return /\ todo = {}
      BY <1>6 DEF DropFinalizer, docker
    <2>1. CASE Refused
      <3>1. UNCHANGED svc /\ (UNCHANGED faults \/ faults' # 0)
        BY <2>1, FaultType DEF Refused
      <3> QED
        BY <2>0, <3>1, ReturnFrame
    <2>2. CASE UNCHANGED faults
      <3>1. pc' = "idle" /\ host' = "none" /\ rep' = "none"
        BY <2>0 DEF Return
      <3>2. Visited'
        BY <3>1 DEF Visited, OnHost
      <3>3. Tracked'
        BY <2>0, <2>2, <3>1 DEF Tracked
      <3>4. ClientsAccounted'
        BY <2>0, <2>2 DEF Tracked, ClientsAccounted
      <3> QED
        BY <3>2, <3>3, <3>4
    <2> QED
      BY <1>6, <2>1, <2>2 DEF DropFinalizer
  <1> QED
    BY <1>1, <1>2, <1>3, <1>4, <1>5, <1>6

LEMMA ServerClients ==
  ASSUME TypeOK, Visited, Tracked, ClientsAccounted, reconcileTunnelServer
  PROVE  Visited' /\ Tracked' /\ ClientsAccounted'
  <1>1. /\ UNCHANGED <<mode, boxes, left, client, svc>> /\ pc \notin {"start", "connect"}
    BY DEF reconcileTunnelServer, ApplyService, ApplyConfigMap, Apply, ApplyDeployment,
           ensureTunnelAuthSecret, docker
  <1>2. \/ Return /\ (UNCHANGED faults \/ faults' # 0)
        \/ /\ UNCHANGED <<faults, host, rep>> /\ pc' # "clean"
           /\ pc' \in OnHost => rep # "none" \/ pc \in OnHost
    <2>1. CASE ApplyService \/ ApplyConfigMap
      BY <2>1, FaultType DEF ApplyService, ApplyConfigMap, Apply, Goto, OnHost
    <2>2. CASE ApplyDeployment
      BY <2>2, FaultType DEF ApplyDeployment
    <2>3. CASE ensureTunnelAuthSecret
      BY <2>3, FaultType DEF ensureTunnelAuthSecret, OnHost
    <2> QED
      BY <2>1, <2>2, <2>3 DEF reconcileTunnelServer
  <1>3. CASE Return /\ (UNCHANGED faults \/ faults' # 0)
    BY <1>1, <1>3, ReturnFrame
  <1>4. CASE /\ UNCHANGED <<faults, host, rep>> /\ pc' # "clean"
             /\ pc' \in OnHost => rep # "none" \/ pc \in OnHost
    BY <1>1, <1>4, SyncFrame DEF Visited
  <1> QED
    BY <1>2, <1>3, <1>4

LEMMA TunnelClients ==
  ASSUME TypeOK, Versions, Living, Visited, Tracked, ClientsAccounted, reconcileTunnelClient
  PROVE  Visited' /\ Tracked' /\ ClientsAccounted'
  <1>0. /\ pc \in OnHost /\ host \in Hosts /\ host # "none" /\ client \in [Hosts -> Client]
        /\ svc.life \in Finalized /\ UNCHANGED <<mode, boxes, left>>
    <2>1. pc \in OnHost /\ UNCHANGED <<mode, boxes, left>>
      BY DEF reconcileTunnelClient, InspectBox, InspectClient, RemoveClient, CreateClient,
             StartClient, ConnectClient, WriteStatus, OnClient, OffClient, OnHost
    <2>2. OnHost \subseteq Syncing
      BY DEF OnHost, Syncing, PCs
    <2> QED
      BY <2>1, <2>2 DEF Visited, TypeOK, Living
  <1>1. left \subseteq left' /\ Known \subseteq Known'
    BY <1>0, KnownFrame
  <1>2. CASE OffClient /\ (pc \in {"remove", "create"} \/ client[host].state = "none")
    BY <1>0, <1>2, ReturnFrame DEF OffClient, cluster, docker
  <1>3. CASE Return /\ faults' # 0
    BY <1>0, <1>3, ReturnFrame
  <1>4. CASE InspectBox
    <2>1. /\ UNCHANGED <<client, svc>> /\ pc = "inspectBox"
          /\ \/ pc' = "token" /\ rep' = "none" /\ UNCHANGED <<host, faults>>
             \/ Return /\ (UNCHANGED faults \/ faults' # 0)
      BY <1>4, FaultType DEF InspectBox, cluster, docker
    <2>2. CASE pc' = "token" /\ rep' = "none" /\ UNCHANGED <<host, faults>>
      BY <1>0, <2>1, <2>2, SyncFrame
    <2>3. CASE Return /\ (UNCHANGED faults \/ faults' # 0)
      BY <1>0, <2>1, <2>3, ReturnFrame
    <2> QED
      BY <2>1, <2>2, <2>3
  <1>5. CASE InspectClient
    <2>1. /\ UNCHANGED <<client, svc>> /\ pc = "inspectClient"
          /\ \/ pc' # "clean" /\ UNCHANGED <<host, rep, faults>>
             \/ Return /\ faults' # 0
      BY <1>5, FaultType DEF InspectClient, Goto, cluster, docker
    <2>2. CASE pc' # "clean" /\ UNCHANGED <<host, rep, faults>>
      BY <1>0, <2>1, <2>2, SyncFrame
    <2> QED
      BY <1>3, <2>1, <2>2
  <1>6. CASE RemoveClient
    <2>1. CASE OffClient
      BY <1>2, <1>6, <2>1 DEF RemoveClient
    <2>2. CASE OnClient(NoClient, "create")
      <3>1. CASE Return /\ faults' # 0
        BY <1>3, <3>1
      <3>2. CASE Goto("create") /\ client' = [client EXCEPT ![host] = NoClient] /\ UNCHANGED faults
        <4>1. \A h \in Hosts : client'[h].state # "none" => client'[h] = client[h]
          BY <1>0, <3>2, Empties
        <4>2. pc = "remove" /\ pc' = "create" /\ host' = host /\ UNCHANGED svc
          BY <1>6, <2>2, <3>2 DEF RemoveClient, Goto, OnClient, cluster
        <4>3. faults' = 0 =>
                ~ \E h \in Hosts : client'[h].state # "none" /\ client'[h].net = "alone"
          BY <3>2, <4>1, <4>2 DEF Tracked
        <4> QED
          BY <1>0, <1>1, <3>2, <4>1, <4>2, <4>3, ClientFrame
      <3> QED
        BY <2>2, <3>1, <3>2, FaultType DEF OnClient
    <2> QED
      BY <1>6, <2>1, <2>2 DEF RemoveClient
  <1>7. CASE CreateClient
    <2>1. CASE OffClient
      BY <1>2, <1>7, <2>1 DEF CreateClient
    <2> DEFINE c == [state |-> "stopped", token |-> tok, image |-> image, net |-> "alone"]
    <2>2. CASE OnClient(c, "start")
      <3>1. CASE Return /\ faults' # 0
        BY <1>3, <3>1
      <3>2. CASE Goto("start") /\ client' = [client EXCEPT ![host] = c] /\ UNCHANGED faults
        <4>1. \A h \in Hosts : h # host => client'[h] = client[h]
          BY <1>0, <3>2
        <4>2. /\ pc = "create" /\ pc' = "start" /\ host' = host /\ rep' = rep /\ UNCHANGED svc
          BY <1>7, <2>2, <3>2 DEF CreateClient, Goto, OnClient, cluster
        <4>3. Visited'
          BY <1>0, <4>2, KnownFrame DEF Visited
        <4>4. Tracked'
          BY <3>2, <4>1, <4>2 DEF Tracked
        <4>5. ClientsAccounted'
          BY <1>0, <3>2, <4>1, <4>2, KnownFrame DEF ClientsAccounted, Visited, Finalized
        <4> QED
          BY <4>3, <4>4, <4>5
      <3> QED
        BY <2>2, <3>1, <3>2, FaultType DEF OnClient
    <2> QED
      BY <1>7, <2>1, <2>2 DEF CreateClient
  <1>8. CASE StartClient
    <2>1. CASE client[host].state = "none" /\ OffClient
      BY <1>2, <2>1
    <2> DEFINE c == [client[host] EXCEPT !.state = "running"]
               l == IF pc = "start" THEN "connect" ELSE "status"
    <2>2. CASE client[host].state # "none" /\ OnClient(c, l)
      <3>1. CASE Return /\ faults' # 0
        BY <1>3, <3>1
      <3>2. CASE Goto(l) /\ client' = [client EXCEPT ![host] = c] /\ UNCHANGED faults
        <4>1. c.net = client[host].net
          BY <1>0 DEF Client
        <4>2. /\ pc \in {"start", "restart"} /\ pc' = l /\ host' = host /\ rep' = rep
              /\ UNCHANGED svc
          BY <1>8, <2>2, <3>2 DEF StartClient, Goto, OnClient, cluster
        <4> HIDE DEF c
        <4>3. \A h \in Hosts : client'[h].net = client[h].net
                               /\ (client'[h].state # "none" => client[h].state # "none")
          BY <1>0, <2>2, <3>2, <4>1
        <4>4. faults' = 0 =>
                \A h \in Hosts : client'[h].state # "none" /\ client'[h].net = "alone" =>
                    host' = h /\ pc' \in {"start", "connect"}
          BY <3>2, <4>2, <4>3 DEF Tracked
        <4> QED
          BY <1>0, <1>1, <3>2, <4>2, <4>3, <4>4, ClientFrame
      <3> QED
        BY <2>2, <3>1, <3>2, FaultType DEF OnClient
    <2> QED
      BY <1>8, <2>1, <2>2 DEF StartClient
  <1>9. CASE ConnectClient
    <2>1. /\ pc = "connect" /\ pc' = "status" /\ UNCHANGED <<host, rep, svc>>
      BY <1>9 DEF ConnectClient, Goto, cluster
    <2>2. CASE faults' # 0
      BY <1>0, <1>1, <2>1, <2>2, ClientFrame
    <2>3. CASE faults' = 0
      <3>1. UNCHANGED faults /\ \/ /\ client[host].state # "none" 
                                   /\ client' = [client EXCEPT ![host].net = "joined"]
                                \/ client[host].state = "none" /\ UNCHANGED client
        BY <1>9, <2>3, FaultType DEF ConnectClient
      <3>2. \A h \in Hosts : /\ client'[h].state = client[h].state
                             /\ h # host => client'[h] = client[h]
                             /\ client'[host].state # "none" => client'[host].net = "joined"
        BY <1>0, <3>1 DEF Client
      <3>3. ~ \E h \in Hosts : client'[h].state # "none" /\ client'[h].net = "alone"
        BY <1>0, <2>3, <3>1, <3>2 DEF Tracked
      <3> QED
        BY <1>0, <1>1, <2>1, <2>3, <3>1, <3>2, <3>3, ClientFrame
    <2> QED
      BY <2>2, <2>3
  <1>10. CASE WriteStatus
    <2>1. UNCHANGED client /\ pc = "status" /\ Return
      BY <1>10 DEF WriteStatus, docker
    <2>2. CASE faults' # 0
      BY <1>3, <2>1, <2>2
    <2>3. CASE UNCHANGED faults /\ svc'.life = svc.life
      BY <1>0, <2>1, <2>3, ReturnFrame
    <2>4. faults' # 0 \/ (UNCHANGED faults /\ svc'.life = svc.life)
      <3>1. CASE Refused
        BY <3>1, FaultType DEF Refused
      <3>2. CASE Accepts /\ UNCHANGED <<svc, faults>>
        BY <3>2
      <3>3. CASE Accepts /\ Store(Activated(loc)) /\ UNCHANGED faults
        <4>1. loc = svc
          BY <2>1, <3>3, AcceptedIsNewest
        <4>2. Activated(loc) \in Svc /\ Activated(loc).life = svc.life /\ svc \in Svc
          BY <4>1 DEF Activated, TypeOK, Svc
        <4> QED
          BY <3>3, <4>2, Stored
      <3> QED
        BY <1>10, <3>1, <3>2, <3>3 DEF WriteStatus
    <2> QED
      BY <2>2, <2>3, <2>4
  <1> QED
    BY <1>4, <1>5, <1>6, <1>7, <1>8, <1>9, <1>10 DEF reconcileTunnelClient

LEMMA EnvironmentClients ==
  ASSUME TypeOK, Visited, Tracked, ClientsAccounted, Environment
  PROVE  Visited' /\ Tracked' /\ ClientsAccounted'
  <1>0. client \in [Hosts -> Client] /\ svc \in Svc
    BY DEF TypeOK
  <1>1. ASSUME UNCHANGED <<pc, host, rep, todo, faults>>,
               left \subseteq left', Known \subseteq Known',
               svc.life \in Finalized => svc'.life \in Finalized,
               \A h \in Hosts : client'[h].state # "none" =>
                   client[h].state # "none" /\ client'[h].net = client[h].net
        PROVE  Visited' /\ Tracked' /\ ClientsAccounted'
    <2>1. faults' = 0 =>
            \A h \in Hosts : client'[h].state # "none" /\ client'[h].net = "alone" =>
                host' = h /\ pc' \in {"start", "connect"}
      BY <1>1 DEF Tracked
    <2>2. rep' # "none" \/ pc' \in OnHost => host' # "none"
      BY <1>1 DEF Visited
    <2> QED
      BY <1>1, <2>1, <2>2, ClientFrame
  <1>2. CASE UserCreate \/ UserDelete
    <2>1. UNCHANGED <<mode, boxes, left, pc, host, rep, todo, faults, client>>
      BY <1>2 DEF UserCreate, UserDelete, docker, worker
    <2>2. svc.life \in Finalized => svc'.life \in Finalized
      BY <1>0, <1>2 DEF UserCreate, UserDelete, Store, Finalized, Svc
    <2> QED
      BY <1>1, <2>1, <2>2, KnownFrame
  <1>3. CASE Deliver \/ LoseSecret \/ \E k \in Kinds : Collect(k)
    <2>1. UNCHANGED <<mode, boxes, left, pc, host, rep, todo, faults, client, svc>>
      BY <1>3 DEF Deliver, LoseSecret, Collect, docker, worker
    <2> QED
      BY <1>1, <2>1, KnownFrame
  <1>4. CASE Crash
    BY <1>4, ReturnFrame, FaultType DEF Crash
  <1>5. ASSUME NEW b \in Boxes, Launch(b) PROVE Visited' /\ Tracked' /\ ClientsAccounted'
    <2>1. /\ UNCHANGED <<mode, left, pc, host, rep, todo, faults, client, svc>>
          /\ boxes \in [Boxes -> Box] /\ boxes' = [boxes EXCEPT ![b].up = "yes"]
      BY <1>5 DEF Launch, TypeOK, cluster, docker, worker
    <2>2. \A a \in Boxes : boxes'[a].host = boxes[a].host
      BY <2>1 DEF Box
    <2>3. Used(boxes)' = Used(boxes)
      BY <2>1, <2>2, BoxesAssumption DEF Used, Selected
    <2> QED
      BY <1>1, <2>1, <2>3 DEF Known
  <1>6. ASSUME NEW b \in Boxes, NEW g \in Hosts \cup {"none"}, ChangeBox(b, g)
        PROVE  Visited' /\ Tracked' /\ ClientsAccounted'
    <2>1. /\ UNCHANGED <<mode, pc, host, rep, todo, faults, client, svc>>
          /\ left' = left \cup (Used(boxes) \ Used(boxes'))
      BY <1>6 DEF ChangeBox, cluster, docker, worker
    <2>2. Used(boxes)' = Used(boxes')
      BY <2>1 DEF Used, Selected
    <2> QED
      BY <1>1, <2>1, <2>2 DEF Known
  <1>7. ASSUME NEW g \in Hosts, StopClient(g) \/ LoseClient(g)
        PROVE  Visited' /\ Tracked' /\ ClientsAccounted'
    <2>1. UNCHANGED <<mode, boxes, left, pc, host, rep, todo, faults, svc>>
      BY <1>7 DEF StopClient, LoseClient, cluster, worker
    <2>2. \A h \in Hosts : client'[h].state # "none" =>
              client[h].state # "none" /\ client'[h].net = client[h].net
      BY <1>0, <1>7, Empties DEF StopClient, LoseClient, Client
    <2> QED
      BY <1>1, <2>1, <2>2, KnownFrame
  <1> QED
    BY <1>2, <1>3, <1>4, <1>5, <1>6, <1>7 DEF Environment

-----------------------------------------------------------------------------
(* The theorems. *)

LEMMA Initially == Init => IInv
  <1> SUFFICES ASSUME Init PROVE IInv
    OBVIOUS
  <1>1. TypeOK
    BY Empties, LayoutsAssumption DEF Init, TypeOK, PCs
  <1>2. Versions /\ Living
    BY DEF Init, Versions, CopyOf, Living, Gone, Syncing
  <1>3. Made /\ ServerComplete
    BY DEF Init, Made, ServerComplete, Gone, NoObj, Kinds
  <1>4. Visited /\ Tracked /\ ClientsAccounted
    BY DEF Init, Visited, Tracked, ClientsAccounted, NoClient, OnHost
  <1> QED
    BY <1>1, <1>2, <1>3, <1>4 DEF IInv

LEMMA Invariance == Spec => []IInv
  <1>1. ASSUME IInv, Next PROVE IInv'
    <2>1. TypeOK'
      BY <1>1, TypeStep DEF IInv
    <2>2. Versions' /\ Living'
      BY <1>1, <2>1, ReconcileLife, EnvironmentLife DEF IInv, Next
    <2>3. Made' /\ ServerComplete'
      BY <1>1, ReconcileServer, EnvironmentServer DEF IInv, Next
    <2>4. Visited' /\ Tracked' /\ ClientsAccounted'
      BY <1>1, FinalizerClients, ServerClients, TunnelClients, EnvironmentClients
      DEF IInv, Next, Reconcile
    <2> QED
      BY <2>1, <2>2, <2>3, <2>4 DEF IInv
  <1>2. ASSUME IInv, UNCHANGED vars PROVE IInv'
    <2>1. TypeOK'
      BY <1>2 DEF vars, cluster, docker, worker, IInv, TypeOK
    <2>2. Versions' /\ Living'
      BY <1>2, LifeFrame DEF vars, cluster, worker, IInv
    <2>3. Made' /\ ServerComplete'
      BY <1>2, ServerFrame DEF vars, cluster, worker, IInv
    <2>4. UNCHANGED <<mode, boxes, left, pc, host, rep, todo, faults, client, svc>>
      BY <1>2 DEF vars, cluster, docker, worker
    <2>5. Visited' /\ Tracked' /\ ClientsAccounted'
      BY <1>2, <2>4, KnownFrame DEF IInv, Visited, Tracked, ClientsAccounted
    <2> QED
      BY <2>1, <2>2, <2>3, <2>5 DEF IInv
  <1> QED
    BY <1>1, <1>2, Initially, PTL DEF Spec

\* Every reachable state of the service, its objects and its clients is well typed.
THEOREM Typing == Spec => []TypeOK
  <1>1. IInv => TypeOK
    BY DEF IInv
  <1> QED
    BY <1>1, Invariance, PTL

\* Whatever lives overlap, faults happen and objects are collected, a tunnel server of
\* the current service has its Service and its ConfigMap (reconciler.go:240-306).
THEOREM ServerIsComplete == Spec => []ServerComplete
  <1>1. IInv => ServerComplete
    BY DEF IInv
  <1> QED
    BY <1>1, Invariance, PTL

\* For any number of containers and hosts, no tunnel client escapes the finalizer
\* unless its host was left or a call failed (reconciler.go:560-610).
THEOREM FinalizerFindsClients == Spec => []ClientsAccounted
  <1>1. IInv => ClientsAccounted
    BY DEF IInv
  <1> QED
    BY <1>1, Invariance, PTL

\* Between reconciles, and without faults, no tunnel client runs outside the network
\* of its targets (reconciler.go:505-540).
THEOREM ClientsAreJoined == Spec => []RunningIsJoined
  <1>1. IInv => RunningIsJoined
    BY DEF IInv, Tracked, RunningIsJoined, TypeOK, Client
  <1> QED
    BY <1>1, Invariance, PTL
=============================================================================
