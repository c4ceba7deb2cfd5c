------------------------- MODULE TunnelTargetsProofs -------------------------
(***************************************************************************)
(* A recent push decides the server's targets, and no file undoes a push,  *)
(* for every window, every kubelet that is faster than it and every set of *)
(* backends.                                                               *)
(*                                                                         *)
(* PushNotReverted is not inductive.  After the window it depends on the   *)
(* file having caught up meanwhile: as long as the file is older than the  *)
(* last push, it has been behind for at least as long as the push is old   *)
(* (Catching), and it is never behind for as long as the window lasts.     *)
(***************************************************************************)
EXTENDS TunnelTargets, TLAPS

\* Everything on its way is at most as new as the ConfigMap, and the file is the
\* ConfigMap once it has its version.
Versions ==
    /\ \A p \in pushes : p.v <= cm.v
    /\ push.v <= cm.v /\ file.v <= cm.v
    /\ file.v = cm.v => file = cm

\* The kubelet keeps to its bound, and a file older than the push has been behind
\* for as long as the push is old.
Catching ==
    /\ behind <= SyncTicks
    /\ file.v < push.v => age <= behind

\* What was read and may be applied is not older than the last push.
ReadsFresh == age = Window => \A r \in reads : push.v <= r.got.v

IInv == TypeOK /\ Versions /\ PushHolds /\ Catching /\ ReadsFresh

\* Splitting a list and dropping blank entries gives the list back
\* (server.go:253-259, 297-302).
LEMMA Parsed ==
    ASSUME NEW l \in List
    PROVE  Parse(l) \in List /\ Parse(l).v = l.v /\ Parse(l).addrs = l.addrs
<1>1. Split(l.addrs) \ {"blank"} = l.addrs
  BY BackendsAssumption DEF List, Split
<1> QED BY <1>1 DEF List, Parse

\* The ghost versions of an empty list.
LEMMA EmptyList == Empty \in List /\ Empty.v = 0 /\ Empty.addrs = {}
BY DEF Empty, List

LEMMA Initially == Init => IInv
<1> SUFFICES ASSUME Init PROVE IInv
  OBVIOUS
<1> USE EmptyList, WindowAssumption
<1>1. TypeOK BY DEF Init, TypeOK
<1>2. Versions BY DEF Init, Versions
<1>3. PushHolds /\ Catching /\ ReadsFresh
  BY DEF Init, PushHolds, Catching, ReadsFresh, List
<1> QED BY <1>1, <1>2, <1>3 DEF IInv

\* The calls of the reconciler: a new version of the ConfigMap is newer than all
\* there is, and puts the file behind if it was not.
LEMMA ReconcileStep == IInv /\ Reconcile => IInv'
<1> SUFFICES ASSUME IInv, Reconcile PROVE IInv'
  OBVIOUS
<1> USE WindowAssumption DEF IInv
<1>1. CASE Gather
  BY <1>1 DEF Gather, TypeOK, Versions, PushHolds, Catching, ReadsFresh, targetsEqual,
              server
<1>2. CASE WriteConfigMap
  <2>1. TypeOK'
    BY <1>2 DEF WriteConfigMap, Fault, TypeOK, List, server
  <2>2. CASE cm' = cm /\ behind' = behind
    BY <1>2, <2>1, <2>2
    DEF WriteConfigMap, Versions, PushHolds, Catching, ReadsFresh, targetsEqual, server
  <2>3. CASE /\ cm' = [v |-> cm.v + 1, addrs |-> want]
             /\ behind' = (IF file = cm THEN 0 ELSE behind)
    <3>1. cm'.v = cm.v + 1 /\ cm.v \in Nat /\ file.v \in Nat /\ push.v \in Nat
      BY <2>3 DEF TypeOK, List
    <3>2. \A p \in pushes : p.v \in Nat
      BY DEF TypeOK, List
    <3>3. UNCHANGED <<file, pushes, server>>
      BY <1>2 DEF WriteConfigMap
    <3>4. Versions'
      BY <3>1, <3>2, <3>3 DEF Versions, server
    <3>5. Catching'
      BY <2>3, <3>1, <3>3 DEF Catching, Versions, server, TypeOK
    <3>6. PushHolds' /\ ReadsFresh'
      BY <3>3 DEF PushHolds, ReadsFresh, server, targetsEqual
    <3> QED BY <2>1, <3>4, <3>5, <3>6
  <2> QED BY <1>2, <2>2, <2>3 DEF WriteConfigMap
<1>3. CASE triggerTunnelReload
  <2>1. \A p \in pushes' : p \in List /\ p.v <= cm.v
    BY <1>3 DEF triggerTunnelReload, TypeOK, Versions, List
  <2>2. TypeOK'
    BY <1>3, <2>1 DEF triggerTunnelReload, Fault, TypeOK, server
  <2> QED BY <1>3, <2>1, <2>2
          DEF triggerTunnelReload, Versions, PushHolds, Catching, ReadsFresh,
              targetsEqual, server
<1> QED BY <1>1, <1>2, <1>3 DEF Reconcile

\* A pushed list is taken over: it is the newest push, and its age is zero.
LEMMA ReloadStep ==
    ASSUME NEW p \in pushes, IInv, handleReload(p)
    PROVE  IInv'
<1> USE WindowAssumption DEF IInv
<1>1. p \in List /\ p.v \in Nat /\ p.v <= cm.v
  BY DEF TypeOK, Versions, List
<1>2. Parse(p) \in List /\ Parse(p).v = p.v /\ Parse(p).addrs = p.addrs
  BY <1>1, Parsed
<1>3. UNCHANGED <<backends, changes, operator, file, behind, faults>> /\ pushes' \subseteq pushes
  BY DEF handleReload
<1>4. CASE p.addrs # {}
  <2>1. targets' = Parse(p) /\ push' = Parse(p) /\ age' = 0 /\ reads' = reads
    BY <1>4 DEF handleReload
  <2>2. TypeOK' BY <1>2, <1>3, <2>1 DEF TypeOK, operator
  <2>3. Versions' BY <1>1, <1>2, <1>3, <2>1 DEF Versions, operator
  <2>4. PushHolds' BY <2>1 DEF PushHolds, targetsEqual
  <2>5. Catching' BY <1>3, <2>1 DEF Catching, TypeOK
  <2>6. ReadsFresh' BY <2>1 DEF ReadsFresh
  <2> QED BY <2>2, <2>3, <2>4, <2>5, <2>6
<1>5. CASE p.addrs = {}
  <2>1. /\ reads' = reads \cup {[by |-> p.v, got |-> file]}
        /\ UNCHANGED <<targets, push, age>>
    BY <1>5 DEF handleReload
  <2>2. [by |-> p.v, got |-> file] \in [by : Nat, got : List]
    BY <1>1 DEF TypeOK
  <2>3. TypeOK' BY <1>3, <2>1, <2>2 DEF TypeOK, operator
  <2>4. Versions' /\ PushHolds' /\ Catching'
    BY <1>3, <2>1 DEF Versions, PushHolds, Catching, targetsEqual, operator
  <2>5. age = Window => push.v <= file.v
    BY DEF Catching, TypeOK, List
  <2>6. ReadsFresh'
    BY <2>1, <2>5 DEF ReadsFresh
  <2> QED BY <2>3, <2>4, <2>6
<1> QED BY <1>4, <1>5

\* The polling goroutine reads a file that is not older than an old push.
LEMMA WatchStep == IInv /\ watchTargetsFile => IInv'
<1> SUFFICES ASSUME IInv, watchTargetsFile PROVE IInv'
  OBVIOUS
<1> USE WindowAssumption DEF IInv
<1>1. [by |-> Ticker, got |-> file] \in [by : Nat, got : List]
  BY DEF TypeOK, Ticker
<1>2. TypeOK' BY <1>1 DEF watchTargetsFile, TypeOK, operator
<1>3. Versions' /\ PushHolds' /\ Catching'
  BY DEF watchTargetsFile, Versions, PushHolds, Catching, targetsEqual, operator
<1>4. age = Window => push.v <= file.v
  BY DEF Catching, TypeOK, List
<1>5. ReadsFresh'
  BY <1>4 DEF watchTargetsFile, ReadsFresh
<1> QED BY <1>2, <1>3, <1>5

\* What was read becomes the targets only if it agrees with a recent push.
LEMMA LoadStep ==
    ASSUME NEW r \in reads, IInv, loadTargetsFromFile(r)
    PROVE  /\ IInv'
           /\ targets = push => targets'.v >= targets.v
<1> USE WindowAssumption DEF IInv
<1> DEFINE new == Parse(r.got)
<1>1. r.got \in List
  BY DEF TypeOK
<1>2. new \in List /\ new.v = r.got.v /\ new.addrs = r.got.addrs
  BY <1>1, Parsed
<1> HIDE DEF new
<1>3. /\ targets' = (IF LikelyStale(new) \/ targetsEqual(new, targets) THEN targets ELSE new)
      /\ reads' \subseteq reads
      /\ UNCHANGED <<backends, changes, operator, pushes, file, behind, push, age, faults>>
  BY DEF loadTargetsFromFile, new
<1>4. TypeOK'
  BY <1>2, <1>3 DEF TypeOK, operator
<1>5. Versions' /\ Catching' /\ ReadsFresh'
  BY <1>3 DEF Versions, Catching, ReadsFresh, operator
<1>6. PushHolds'
  BY <1>3 DEF PushHolds, LikelyStale, targetsEqual
<1>7. targets = push => targets'.v >= targets.v
  <2>1. CASE targets' = targets
    BY <2>1 DEF TypeOK, List
  <2>2. CASE targets' = new /\ targets = push /\ ~LikelyStale(new) /\ ~targetsEqual(new, targets)
    <3>1. age = Window
      BY <2>2 DEF LikelyStale, targetsEqual, TypeOK
    <3>2. push.v <= r.got.v
      BY <3>1 DEF ReadsFresh
    <3>3. push.v \in Nat /\ r.got.v \in Nat
      BY <1>1 DEF TypeOK, List
    <3> QED BY <1>2, <2>2, <3>2, <3>3
  <2> QED BY <1>3, <2>1, <2>2
<1> QED BY <1>4, <1>5, <1>6, <1>7

\* Time: the push grows older no faster than the file's backlog.
LEMMA TickStep == IInv /\ Tick => IInv'
<1> SUFFICES ASSUME IInv, Tick PROVE IInv'
  OBVIOUS
<1> USE WindowAssumption DEF IInv
<1>1. /\ age \in 0..Window /\ behind \in Nat
      /\ file.v \in Nat /\ push.v \in Nat /\ cm.v \in Nat
  BY DEF TypeOK, List
<1>2. TypeOK'
  BY <1>1 DEF Tick, TypeOK, operator
<1>3. Versions' /\ PushHolds'
  BY <1>1 DEF Tick, Versions, PushHolds, targetsEqual, operator
<1>4. Catching'
  <2>1. behind' <= SyncTicks
    BY <1>1 DEF Tick, Catching
  <2>2. file.v < push.v => file # cm
    BY <1>1 DEF Versions
  <2>3. file.v < push.v => age' <= behind'
    BY <1>1, <2>2 DEF Tick, Catching
  <2> QED BY <2>1, <2>3 DEF Tick, Catching
<1>5. ReadsFresh'
  BY DEF Tick, ReadsFresh
<1> QED BY <1>2, <1>3, <1>4, <1>5

\* Everything else.
LEMMA OtherStep ==
    ASSUME IInv,
           \/ CacheSync \/ OperatorCrash \/ ServerRestart \/ KubeletSync
           \/ \E S \in SUBSET Backends : Change(S)
           \/ \E p \in pushes : LosePush(p)
    PROVE  IInv'
<1> USE WindowAssumption, EmptyList DEF IInv
<1>1. CASE CacheSync
  BY <1>1 DEF CacheSync, TypeOK, Versions, PushHolds, Catching, ReadsFresh, targetsEqual, server
<1>2. CASE OperatorCrash
  BY <1>2 DEF OperatorCrash, Fault, TypeOK, Versions, PushHolds, Catching, ReadsFresh,
              targetsEqual, server
<1>3. CASE ServerRestart
  <2>1. TypeOK' BY <1>3 DEF ServerRestart, Fault, TypeOK, operator
  <2>2. cm.v \in Nat /\ file.v \in Nat BY DEF TypeOK, List
  <2> QED BY <1>3, <2>1, <2>2
          DEF ServerRestart, Versions, PushHolds, Catching, ReadsFresh, operator
<1>4. CASE KubeletSync
  <2>1. TypeOK' BY <1>4 DEF KubeletSync, TypeOK, operator, server
  <2>2. cm.v \in Nat /\ push.v \in Nat BY DEF TypeOK, List
  <2> QED BY <1>4, <2>1, <2>2
          DEF KubeletSync, Versions, PushHolds, Catching, ReadsFresh, targetsEqual,
              operator, server
<1>5. CASE \E S \in SUBSET Backends : Change(S)
  BY <1>5 DEF Change, TypeOK, Versions, PushHolds, Catching, ReadsFresh, targetsEqual,
              operator, server
<1>6. CASE \E p \in pushes : LosePush(p)
  BY <1>6 DEF LosePush, TypeOK, Versions, PushHolds, Catching, ReadsFresh, targetsEqual,
              operator, server
<1> QED BY <1>1, <1>2, <1>3, <1>4, <1>5, <1>6

LEMMA Stutter == IInv /\ UNCHANGED vars => IInv'
BY DEF IInv, TypeOK, Versions, PushHolds, Catching, ReadsFresh, targetsEqual,
       vars, operator, server

\* Every reachable state satisfies the inductive invariant.
THEOREM Invariance == Spec => []IInv
<1>1. IInv /\ [Next]_vars => IInv'
  BY ReconcileStep, ReloadStep, WatchStep, LoadStep, TickStep, OtherStep, Stutter DEF Next
<1> QED BY <1>1, Initially, PTL DEF Spec

\* Every variable keeps its type; in particular the age of the last push stops at the
\* window that decides on it (server.go:308-315).
THEOREM Typing == Spec => []TypeOK
<1>1. IInv => TypeOK BY DEF IInv
<1> QED BY <1>1, Invariance, PTL

\* For two minutes after a push the server's targets are the pushed ones
\* (server.go:308-315).
THEOREM PushIsTruth == Spec => []PushHolds
<1>1. IInv => PushHolds BY DEF IInv
<1> QED BY <1>1, Invariance, PTL

\* A file never replaces pushed targets by older ones, during the window or after
\* it, provided the kubelet is faster than the window (server.go:287-324).
THEOREM PushSurvives == Spec => PushNotReverted
<1>1. IInv => (\A r \in reads :
                  loadTargetsFromFile(r) /\ targets = push => targets'.v >= targets.v)
  BY LoadStep
<1>2. IInv /\ [Next]_vars =>
        [\A r \in reads :
            loadTargetsFromFile(r) /\ targets = push => targets'.v >= targets.v]_vars
  BY <1>1
<1> QED BY <1>2, Invariance, PTL DEF Spec, PushNotReverted
=============================================================================
