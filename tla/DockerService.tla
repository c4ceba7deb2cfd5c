---------------------------- MODULE DockerService ----------------------------
(***************************************************************************)
(* A DockerService, the objects and the tunnel client its reconciler makes *)
(* for it, and their removal                                               *)
(* (internal/controller/dockerservice/reconciler.go).                      *)
(*                                                                         *)
(* In the cluster there are a Service, an auth Secret, a ConfigMap and the *)
(* Deployment of the tunnel server, owned by the DockerService and removed *)
(* by the garbage collector.  On the Docker host of one of the containers  *)
(* there is the tunnel client, a container that only the reconciler's      *)
(* finalizer removes.  Server and client share the Secret's token.  The    *)
(* list in the ConfigMap is the subject of TunnelTargets.                  *)
(*                                                                         *)
(* The service may be deleted and created again under its name; each life  *)
(* has a uid.  The DockerContainers ("boxes") come, move between hosts and *)
(* go.  The Spec's ports and network mode decide nothing and are left out. *)
(***************************************************************************)
EXTENDS Integers, FiniteSets

CONSTANTS Boxes,      \* the DockerContainers that the selector matches
          RefBox,     \* the one that containerRef names
          Hosts,      \* Docker hosts
          Modes,      \* kinds of spec: a selector, a containerRef or neither
          Layouts,    \* the DockerContainers there may be at first, and their hosts
          MaxLives,   \* bound: how often the service is created
          MaxChanges, \* bound: changes of boxes, tunnel clients and the Secret, stale reads
          MaxFaults,  \* bound: failed calls and restarts of the operator
          MaxTrouble, \* bound: creations, changes and faults together
          MaxImages   \* bound: operator images

ASSUME BoxesAssumption == RefBox \in Boxes /\ Hosts # {} /\ "none" \notin Boxes \cup Hosts
ASSUME ModesAssumption == Modes \subseteq {"selector", "ref", "neither"}
ASSUME BoundsAssumption ==
    /\ MaxLives \in Nat /\ MaxChanges \in Nat
    /\ MaxFaults \in Nat /\ MaxTrouble \in Nat /\ MaxImages \in Nat

VARIABLES
    mode,      \* which targets the spec names
    svc,       \* the DockerService at the API server
    seen,      \* the DockerService as the informer cache serves it
    boxes,     \* the DockerContainers: dockerHostRef, and whether the container exists
    obj,       \* the objects owned by the service, by kind
    tokens,    \* how many auth tokens have been made
    client,    \* tunnel-client-<service> on each host
    image,     \* OPERATOR_IMAGE
    pc,        \* the worker's next call
    loc,       \* its copy of the service
    rep,       \* firstContainer
    host,      \* the host that firstContainer is on
    tok,       \* authToken
    todo,      \* the hosts deleteExternalResources still has to visit
    left,      \* hosts that the last selected container has left, ever
    changes, faults

worker == <<pc, loc, rep, host, tok, todo>>
cluster == <<svc, seen, obj, tokens>>
docker == <<client, image>>
vars == <<mode, cluster, boxes, docker, worker, left, changes, faults>>

Kinds == {"Service", "Secret", "ConfigMap", "Deployment"}
Lives == {"new", "active", "deleting", "gone"}   \* as for jobs: "active" has the finalizer
Svc == [life : Lives, uid : Nat, rv : Nat, phase : {"None", "Active"}]
Obj == [owner : Nat, token : Nat]                \* owner 0: there is none
Client == [state : {"none", "stopped", "running"}, token : Nat, image : Nat,
           net : {"alone", "joined"}]
Box == [host : Hosts \cup {"none"}, up : {"yes", "no"}]   \* host "none": there is none

ASSUME LayoutsAssumption == Layouts \subseteq [Boxes -> Box]

NoObj == [owner |-> 0, token |-> 0]
NoClient == [state |-> "none", token |-> 0, image |-> 0, net |-> "alone"]
NoBox == [host |-> "none", up |-> "no"]
Gone == [life |-> "gone", uid |-> 0, rv |-> 0, phase |-> "None"]

PCs == {"idle", "addFinalizer", "listHosts", "clean", "Service",
        "Secret", "ConfigMap", "Deployment", "inspectBox", "token", "inspectClient",
        "remove", "create", "start", "restart", "connect", "status"}

TypeOK ==
    /\ mode \in Modes /\ svc \in Svc /\ seen \in Svc /\ boxes \in [Boxes -> Box]
    /\ obj \in [Kinds -> Obj] /\ tokens \in Nat
    /\ client \in [Hosts -> Client] /\ image \in Nat
    /\ pc \in PCs /\ loc \in Svc /\ rep \in Boxes \cup {"none"}
    /\ host \in Hosts \cup {"none"} /\ tok \in Nat
    /\ todo \in SUBSET Hosts /\ left \in SUBSET Hosts
    /\ changes \in Nat /\ faults \in Nat

\* The selected DockerContainers and the hosts they are on.
Selected(bs) ==
    CASE mode = "selector" -> {b \in Boxes : bs[b].host # "none"}
      [] mode = "ref" -> {b \in {RefBox} : bs[b].host # "none"}
      [] OTHER -> {}
Used(bs) == {bs[b].host : b \in Selected(bs)}

Init ==
    /\ mode \in Modes
    /\ svc = Gone /\ seen = Gone
    /\ boxes \in Layouts
    /\ obj = [k \in Kinds |-> NoObj] /\ tokens = 0
    /\ client = [h \in Hosts |-> NoClient] /\ image = 1
    /\ pc = "idle" /\ loc = Gone /\ rep = "none" /\ host = "none" /\ tok = 0 /\ todo = {}
    /\ left = {} /\ changes = 0 /\ faults = 0

-----------------------------------------------------------------------------
(* The API server, as the reconciler's calls see it. *)

MoreTrouble == svc.uid + changes + faults < MaxTrouble
Fault == MoreTrouble /\ faults < MaxFaults /\ faults' = faults + 1
Changing == MoreTrouble /\ changes < MaxChanges /\ changes' = changes + 1

Return ==
    /\ pc' = "idle" /\ loc' = Gone /\ rep' = "none" /\ host' = "none"
    /\ tok' = 0 /\ todo' = {}
Goto(l) == pc' = l /\ UNCHANGED <<loc, rep, host, tok, todo>>

Accepts == svc.life # "gone" /\ loc.rv = svc.rv
Store(s) == svc' = [s EXCEPT !.rv = svc.rv + 1]
Refused ==
    /\ UNCHANGED svc
    /\ \/ ~Accepts /\ UNCHANGED faults
       \/ Accepts /\ Fault

-----------------------------------------------------------------------------
(* Reconcile. *)

\* Mutant: the deletion is not noticed.
DeletionIgnored(s) == IF s.life = "new" THEN "addFinalizer" ELSE "Service"

FirstCall(s) ==
    CASE s.life = "deleting" -> "listHosts"
      [] s.life = "new" -> "addFinalizer"
      [] OTHER -> "Service"

\* Neither selector nor containerRef, or a containerRef to nothing: Reconcile
\* returns before it looks at the finalizer (for an invalid selector likewise).
NoTargets == mode = "neither" \/ (mode = "ref" /\ Selected(boxes) = {})

\* Reads the service and lists its containers.  The cache lists them in any
\* order, so any one may be the first.
Begin ==
    /\ pc = "idle" /\ seen.life # "gone" /\ ~NoTargets
    /\ pc' = FirstCall(seen) /\ loc' = seen /\ UNCHANGED <<tok, todo>>
    /\ \/ /\ Selected(boxes) = {} \/ seen.life = "deleting"
          /\ UNCHANGED <<rep, host>>
       \/ /\ seen.life # "deleting"
          /\ \E b \in Selected(boxes) : rep' = b /\ host' = boxes[b].host
    /\ IF seen = svc THEN UNCHANGED changes ELSE Changing
    /\ UNCHANGED <<mode, cluster, boxes, docker, left, faults>>

BeginInVain ==
    /\ pc = "idle" /\ (seen.life = "gone" \/ NoTargets)
    /\ UNCHANGED vars

AddFinalizer ==
    /\ pc = "addFinalizer"
    /\ \/ /\ Accepts /\ Store([loc EXCEPT !.life = "active"])
          /\ loc' = svc' /\ pc' = "Service"
          /\ UNCHANGED <<rep, host, tok, todo, faults>>
       \/ Refused /\ Return
    /\ UNCHANGED <<mode, seen, obj, tokens, boxes, docker, left, changes>>

\* Mutant: only the host of one container is visited.
OneHostOnly == {CHOOSE h \in Hosts : Used(boxes) # {} => h \in Used(boxes)}

\* deleteExternalResources lists the containers again for their hosts.
CleanupHosts == Used(boxes)

ListHosts ==
    /\ pc = "listHosts" /\ pc' = "clean" /\ todo' = CleanupHosts
    /\ UNCHANGED <<loc, rep, host, tok>>
    /\ UNCHANGED <<mode, cluster, boxes, docker, left, changes, faults>>

\* A host whose Docker client or ContainerRemove fails is passed over.
CleanHost ==
    /\ pc = "clean"
    /\ \E h \in todo :
          /\ todo' = todo \ {h}
          /\ \/ client' = [client EXCEPT ![h] = NoClient] /\ UNCHANGED faults
             \/ client[h] # NoClient /\ Fault /\ UNCHANGED client
    /\ UNCHANGED <<pc, loc, rep, host, tok>>
    /\ UNCHANGED <<mode, cluster, boxes, image, left, changes>>

DropFinalizer ==
    /\ pc = "clean" /\ todo = {}
    /\ \/ Accepts /\ Store([loc EXCEPT !.life = "gone"]) /\ UNCHANGED faults
       \/ Refused
    /\ Return
    /\ UNCHANGED <<mode, seen, obj, tokens, boxes, docker, left, changes>>

\* Mutant: an object of an earlier life is taken over with its owner.
Adopt(k, t) ==
    obj' = [obj EXCEPT ![k] = [owner |-> IF @.owner = 0 THEN loc.uid ELSE @.owner, token |-> t]]

\* CreateOrUpdate with SetControllerReference: refused while the object still
\* belongs to an earlier life of the service.
CreateOrUpdate(k, t) ==
    /\ obj[k].owner \in {0, loc.uid}
    /\ obj' = [obj EXCEPT ![k] = [owner |-> loc.uid, token |-> t]]

\* One object of reconcileTunnelServer, and the call after it.
Apply(k, t, next) ==
    /\ pc = k
    /\ \/ CreateOrUpdate(k, t) /\ Goto(next) /\ UNCHANGED faults
       \/ obj[k].owner \notin {0, loc.uid} /\ Return /\ UNCHANGED <<obj, faults>>
       \/ Fault /\ Return /\ UNCHANGED obj
    /\ UNCHANGED <<mode, svc, seen, tokens, boxes, docker, left, changes>>

ApplyService == Apply("Service", 0, "Secret")
ApplyConfigMap == Apply("ConfigMap", 0, "Deployment")

\* The tunnel client is dealt with if there is a container.
ApplyDeployment ==
    /\ pc = "Deployment"
    /\ \/ /\ CreateOrUpdate("Deployment", tok)
          /\ \/ /\ rep # "none" /\ pc' = "inspectBox" /\ tok' = 0
                /\ UNCHANGED <<loc, rep, host, todo>>
             \/ rep = "none" /\ Return
          /\ UNCHANGED faults
       \/ obj["Deployment"].owner \notin {0, loc.uid} /\ Return /\ UNCHANGED <<obj, faults>>
       \/ Fault /\ Return /\ UNCHANGED obj
    /\ UNCHANGED <<mode, svc, seen, tokens, boxes, docker, left, changes>>

\* Called for the server and again for the client: the Secret's token, whoever
\* owns the Secret, or a new Secret.  A cache that does not show a new Secret
\* yet makes Create fail.
ensureTunnelAuthSecret ==
    /\ pc \in {"Secret", "token"}
    /\ \/ /\ IF obj["Secret"].owner # 0
             THEN tok' = obj["Secret"].token /\ UNCHANGED <<obj, tokens>>
             ELSE /\ tokens' = tokens + 1 /\ tok' = tokens'
                  /\ obj' = [obj EXCEPT !["Secret"] = [owner |-> loc.uid, token |-> tok']]
          /\ pc' = IF pc = "Secret" THEN "ConfigMap" ELSE "inspectClient"
          /\ UNCHANGED <<loc, rep, host, todo, faults>>
       \/ Fault /\ Return /\ UNCHANGED <<obj, tokens>>
    /\ UNCHANGED <<mode, svc, seen, boxes, docker, left, changes>>

-----------------------------------------------------------------------------
(* reconcileTunnelClient: its errors end the reconcile. *)

\* getDockerClient and ContainerInspect of the first container, on the host it
\* was on when it was listed.  One that has moved since may be there still.
InspectBox ==
    /\ pc = "inspectBox"
    /\ \/ /\ boxes[rep].host = host => boxes[rep].up = "yes"
          /\ pc' = "token" /\ rep' = "none" /\ UNCHANGED <<loc, host, tok, todo, faults>>
       \/ /\ boxes[rep].host = host => boxes[rep].up = "no"
          /\ Return /\ UNCHANGED faults
       \/ Fault /\ Return
    /\ UNCHANGED <<mode, cluster, boxes, docker, left, changes>>

Drifted(c) == c.image # image

\* Mutant: a client that exists is taken to be running.
AssumedRunning ==
    /\ pc = "inspectClient"
    /\ Goto(IF client[host].state = "none" THEN "create"
            ELSE IF Drifted(client[host]) THEN "remove" ELSE "status")
    /\ UNCHANGED <<mode, cluster, boxes, docker, left, changes, faults>>

InspectClient ==
    /\ pc = "inspectClient"
    /\ LET c == client[host] IN
       \/ c.state = "none" /\ Goto("create") /\ UNCHANGED faults
       \/ c.state # "none" /\ Drifted(c) /\ Goto("remove") /\ UNCHANGED faults
       \/ c.state = "running" /\ ~Drifted(c) /\ Goto("status") /\ UNCHANGED faults
       \/ c.state = "stopped" /\ ~Drifted(c) /\ Goto("restart") /\ UNCHANGED faults
       \/ Fault /\ Return
    /\ UNCHANGED <<mode, cluster, boxes, docker, left, changes>>

\* A call on the tunnel client that makes it c, and the call after it.  A call
\* that fails may have been carried out all the same.
OnClient(c, next) ==
    /\ \/ Goto(next) /\ client' = [client EXCEPT ![host] = c] /\ UNCHANGED faults
       \/ Fault /\ Return /\ client' \in {client, [client EXCEPT ![host] = c]}
    /\ UNCHANGED <<mode, cluster, boxes, image, left, changes>>

\* The engine refuses: the name is taken, or there is no such container.
OffClient ==
    /\ Return
    /\ UNCHANGED <<mode, cluster, boxes, docker, left, changes, faults>>

RemoveClient ==
    /\ pc = "remove"
    /\ \/ client[host].state # "none" /\ OnClient(NoClient, "create")
       \/ client[host].state = "none" /\ OffClient

CreateClient ==
    /\ pc = "create"
    /\ \/ /\ client[host].state = "none"
          /\ OnClient([state |-> "stopped", token |-> tok, image |-> image, net |-> "alone"],
                      "start")
       \/ client[host].state # "none" /\ OffClient

StartClient ==
    /\ pc \in {"start", "restart"}
    /\ \/ /\ client[host].state # "none"
          /\ OnClient([client[host] EXCEPT !.state = "running"],
                      IF pc = "start" THEN "connect" ELSE "status")
       \/ client[host].state = "none" /\ OffClient

\* Mutant: the network is not joined.
NotConnected ==
    /\ pc = "connect" /\ Goto("status")
    /\ UNCHANGED <<mode, cluster, boxes, docker, left, changes, faults>>

\* NetworkConnect to the network of the first container; an error is ignored.
ConnectClient ==
    /\ pc = "connect" /\ Goto("status")
    /\ \/ /\ client[host].state # "none" /\ UNCHANGED faults
          /\ client' = [client EXCEPT ![host].net = "joined"]
       \/ client[host].state = "none" /\ UNCHANGED <<client, faults>>
       \/ Fault /\ UNCHANGED client
    /\ UNCHANGED <<mode, cluster, boxes, image, left, changes>>

\* Mutant: a phase the API does not have.
Readied(s) == [s EXCEPT !.phase = "Ready"]

Activated(s) == [s EXCEPT !.phase = "Active"]

WriteStatus ==
    /\ pc = "status"
    /\ \/ Accepts /\ loc.phase # "Active" /\ Store(Activated(loc)) /\ UNCHANGED faults
       \/ Accepts /\ loc.phase = "Active" /\ UNCHANGED <<svc, faults>>
       \/ Refused
    /\ Return
    /\ UNCHANGED <<mode, seen, obj, tokens, boxes, docker, left, changes>>

reconcileTunnelServer ==
    ApplyService \/ ensureTunnelAuthSecret \/ ApplyConfigMap \/ ApplyDeployment
reconcileTunnelClient ==
    \/ InspectBox \/ InspectClient \/ RemoveClient \/ CreateClient \/ StartClient
    \/ ConnectClient \/ WriteStatus
Reconcile ==
    \/ Begin \/ BeginInVain \/ AddFinalizer \/ ListHosts \/ CleanHost \/ DropFinalizer
    \/ reconcileTunnelServer \/ reconcileTunnelClient

-----------------------------------------------------------------------------
(* The environment. *)

UserCreate ==
    /\ svc.life = "gone" /\ svc.uid < MaxLives /\ MoreTrouble
    /\ svc' = [life |-> "new", uid |-> svc.uid + 1, rv |-> svc.rv + 1, phase |-> "None"]
    /\ UNCHANGED <<mode, seen, obj, tokens, boxes, docker, worker, left, changes, faults>>

UserDelete ==
    /\ svc.life \in {"new", "active"}
    /\ Store([svc EXCEPT !.life = IF @ = "new" THEN "gone" ELSE "deleting"])
    /\ UNCHANGED <<mode, seen, obj, tokens, boxes, docker, worker, left, changes, faults>>

Deliver ==
    /\ seen # svc /\ seen' = svc
    /\ UNCHANGED <<mode, svc, obj, tokens, boxes, docker, worker, left, changes, faults>>

\* The garbage collector removes an object whose owner is no more.
Collect(k) ==
    /\ obj[k].owner # 0 /\ (svc.life = "gone" \/ obj[k].owner # svc.uid)
    /\ obj' = [obj EXCEPT ![k] = NoObj]
    /\ UNCHANGED <<mode, svc, seen, tokens, boxes, docker, worker, left, changes, faults>>

\* A DockerContainer is created, deleted, or moved by an edit of dockerHostRef.
ChangeBox(b, h) ==
    /\ Changing /\ boxes[b].host # h
    /\ boxes' = [boxes EXCEPT ![b] = [host |-> h, up |-> "no"]]
    /\ left' = left \cup (Used(boxes) \ Used(boxes'))
    /\ UNCHANGED <<mode, cluster, docker, worker, faults>>

\* Its controller creates its container.
Launch(b) ==
    /\ boxes[b].host # "none" /\ boxes[b].up = "no"
    /\ boxes' = [boxes EXCEPT ![b].up = "yes"]
    /\ UNCHANGED <<mode, cluster, docker, worker, left, changes, faults>>

\* Somebody stops or removes the tunnel client, or deletes the Secret.
StopClient(h) ==
    /\ Changing /\ client[h].state = "running"
    /\ client' = [client EXCEPT ![h].state = "stopped"]
    /\ UNCHANGED <<mode, cluster, boxes, image, worker, left, faults>>

LoseClient(h) ==
    /\ Changing /\ client[h].state # "none"
    /\ client' = [client EXCEPT ![h] = NoClient]
    /\ UNCHANGED <<mode, cluster, boxes, image, worker, left, faults>>

LoseSecret ==
    /\ Changing /\ obj["Secret"].owner # 0
    /\ obj' = [obj EXCEPT !["Secret"] = NoObj]
    /\ UNCHANGED <<mode, svc, seen, tokens, boxes, docker, worker, left, faults>>

\* The operator is restarted, perhaps with a new image.
Crash ==
    /\ Fault /\ Return /\ seen' = svc
    /\ image' \in image..(IF image < MaxImages THEN image + 1 ELSE image)
    /\ UNCHANGED <<mode, svc, obj, tokens, boxes, client, left, changes>>

Environment ==
    \/ UserCreate \/ UserDelete \/ Deliver \/ LoseSecret \/ Crash
    \/ \E k \in Kinds : Collect(k)
    \/ \E b \in Boxes : Launch(b) \/ \E h \in Hosts \cup {"none"} : ChangeBox(b, h)
    \/ \E h \in Hosts : StopClient(h) \/ LoseClient(h)

Next == Reconcile \/ Environment
Spec == Init /\ [][Next]_vars

\* A service requeues itself every 30 seconds (10 without its container), and
\* the garbage collector works through its list.
FairSpec ==
    /\ Spec /\ WF_vars(Reconcile) /\ WF_vars(Deliver)
    /\ \A k \in Kinds : WF_vars(Collect(k))

-----------------------------------------------------------------------------
(* Properties. *)

\* The finalizer keeps track of the tunnel client: wherever there is one, the
\* service has its finalizer and deleteExternalResources would visit that host,
\* so that "tunnel-client-nginx-lb is removed" (docs/tests.md:119).  The exceptions
\* are hosts that the last selected container has left, which the clean-up does
\* not find (reconciler.go:572), and failed calls, which it only logs.
ClientsAccounted ==
    faults = 0 =>
        \A h \in Hosts : client[h].state # "none" =>
            h \in left \/ (h \in Used(boxes) /\ svc.life \in {"active", "deleting"})

\* Between two reconciles, and without faults, a tunnel client that runs has been
\* connected to the network of its targets; only the reconcile that created it
\* does that (reconciler.go:530).
RunningIsJoined ==
    (pc = "idle" /\ faults = 0) =>
        \A h \in Hosts : client[h].state = "running" => client[h].net = "joined"

\* The tunnel server's Deployment of a service that exists has its Service and
\* the ConfigMap it mounts, and keeps them: the garbage collector, still busy
\* with an earlier service of the name, takes neither (reconciler.go:240-306).
ServerComplete ==
    (svc.life # "gone" /\ obj["Deployment"].owner = svc.uid) =>
        obj["Service"].owner = svc.uid /\ obj["ConfigMap"].owner = svc.uid

\* A tunnel client that works: it runs, with the operator's image and the token
\* that the server asks for.
Works(h) ==
    /\ client[h].state = "running" /\ client[h].image = image
    /\ client[h].token = obj["Deployment"].token

\* A service with containers, all of which exist on their hosts.
Ready ==
    /\ svc.life = "active" /\ Selected(boxes) # {}
    /\ \A b \in Selected(boxes) : boxes[b].up = "yes"

\* In the end such a service has a working tunnel client on a host of one of its
\* containers, whatever happened to the client, its image and the operator
\* (docs/tests.md:198), as long as there was only one token: a client is not
\* recreated for a new one (reconciler.go:474).
Converges == <>[](Ready /\ tokens <= 1 => \E h \in Used(boxes) : Works(h))

\* What docs/tests.md:22-30 says of every service that is applied: it gets a tunnel
\* client and a connection through it.
Connected == <>[](Ready => \E h \in Used(boxes) : Works(h))

\* A deleted service goes away, whatever the Docker hosts answer.  A containerRef
\* whose container does not exist prevents it (reconciler.go:106).
DeletionCompletes == svc.life = "deleting" ~> (svc.life = "gone" \/ NoTargets)
=============================================================================
