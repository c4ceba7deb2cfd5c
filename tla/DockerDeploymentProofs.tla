----------------------- MODULE DockerDeploymentProofs ------------------------
(***************************************************************************)
(* How many children a DockerDeployment can have, for any values of        *)
(* spec.replicas and any number of children, edits, mishaps and faults.    *)
(*                                                                         *)
(* OvershootBounded is not inductive: what a reconcile still has to create *)
(* has to be counted with the children there are (Room).  A reconcile on a *)
(* current list makes the sum what the spec says, since children that are  *)
(* being deleted are counted as well; one on a stale list adds at most the *)
(* largest spec.replicas to what there is.                                 *)
(***************************************************************************)
EXTENDS DockerDeployment, FiniteSetTheorems, WellFoundedInduction, TLAPS

Births ==
    \A k \in Ids : /\ kids[k].born <= MaxTime /\ kidsSeen[k].born <= MaxTime
                   /\ kids[k].life = "none" => kids[k] = NoKid

Working ==
    /\ IF pc = "create" THEN todo > 0 ELSE todo = 0
    /\ pc = "delete" => victims # <<>>

Room == Cardinality(Present(kids)) + todo <= Most * (1 + stale)

IInv == TypeOK /\ Births /\ Working /\ Room

-----------------------------------------------------------------------------
(* Least and largest elements. *)

LEMMA LessThan == \E R : IsWellFoundedOn(R, Nat) /\ \A x, y \in Nat : x < y => <<x, y>> \in R
  <1> DEFINE R == OpToRel(<, Nat)
  <1>1. \A x, y \in Nat : x < y => <<x, y>> \in R
    BY DEF OpToRel
  <1>2. IsWellFoundedOn(R, Nat)
    BY NatLessThanWellFounded
  <1> HIDE DEF R
  <1> QED
    BY <1>1, <1>2

LEMMA MinIs ==
  ASSUME NEW T \in SUBSET Nat, T # {}
  PROVE  (\E x \in T : \A y \in T : x <= y) /\ Min(T) \in T
  <1>1. PICK R : IsWellFoundedOn(R, Nat) /\ \A x, y \in Nat : x < y => <<x, y>> \in R
    BY LessThan
  <1>2. T \subseteq Nat /\ IsWellFoundedOn(R, Nat)
    BY <1>1
  <1>3. \E x \in T : \A y \in T : ~(<<y, x>> \in R)
    BY <1>2, WFMin, Zenon
  <1>4. PICK x \in T : \A y \in T : ~(<<y, x>> \in R)
    BY <1>3
  <1>5. ASSUME NEW y \in T PROVE x <= y
    <2>1. ~(y < x)
      BY <1>1, <1>4
    <2> QED
      BY <2>1
  <1> QED
    BY <1>5 DEF Min

LEMMA MaxIs ==
  ASSUME NEW T \in SUBSET Nat, T # {}, NEW m \in Nat, \A x \in T : x <= m
  PROVE  Max(T) \in T
  <1> DEFINE U == {m - x : x \in T}
  <1>1. U \in SUBSET Nat
    BY SMT
  <1>2. U # {}
    <2>1. PICK x \in T : TRUE
      OBVIOUS
    <2>2. m - x \in U
      OBVIOUS
    <2> QED
      BY <2>2
  <1>3. \A y \in T : m - y \in U
    OBVIOUS
  <1>4. \A u \in U : \E y \in T : u = m - y
    OBVIOUS
  <1> HIDE DEF U
  <1>5. PICK u \in U : \A v \in U : u <= v
    BY <1>1, <1>2, MinIs
  <1>6. PICK x \in T : u = m - x
    BY <1>4
  <1>7. \A y \in T : u <= m - y
    BY <1>3, <1>5
  <1>8. \A y \in T : x >= y
    BY <1>6, <1>7
  <1> QED
    BY <1>8 DEF Max

LEMMA MostIs == Most \in Nat /\ \A n \in Replicas : n \in Nat /\ n <= Most
  <1>1. \E m \in Replicas : \A n \in Replicas : m >= n
    BY ReplicasAssumption
  <1>2. Most \in Replicas /\ \A n \in Replicas : Most >= n
    BY <1>1 DEF Most, Max
  <1> QED
    BY <1>2, ReplicasAssumption

-----------------------------------------------------------------------------
(* Children. *)

LEMMA Counting ==
  /\ IsFiniteSet(Ids)
  /\ \A S \in SUBSET Ids : IsFiniteSet(S) /\ Cardinality(S) \in Nat
  /\ \A S \in SUBSET Ids : \A T \in SUBSET S : Cardinality(T) <= Cardinality(S)
  <1>1. IsFiniteSet(Ids)
    BY FS_Interval, BoundsAssumption DEF Ids
  <1>2. \A S \in SUBSET Ids : IsFiniteSet(S)
    BY <1>1, FS_Subset
  <1> QED
    BY <1>1, <1>2, FS_Subset, FS_CardinalityType

LEMMA NoKidType == NoKid \in Kid /\ NoKid.life = "none" /\ NoKid.born = 0
  BY DEF NoKid, Kid, Lives

LEMMA PresentIsOwned ==
  ASSUME TypeOK, Births PROVE Present(kids) = Owned(kids)
  BY NoKidType DEF TypeOK, Births, Present, Owned, Kid, Lives

\* The bound, with the product taken apart.
LEMMA OneMore ==
  ASSUME NEW s \in Nat
  PROVE  /\ Most * (1 + s) \in Nat /\ Most <= Most * (1 + s)
         /\ Most * (1 + (s + 1)) = Most * (1 + s) + Most
  <1> DEFINE m == Most
  <1>1. m \in Nat
    BY MostIs
  <1> HIDE DEF m
  <1>2. /\ m * (1 + s) = m + m * s /\ m * s \in Nat
        /\ m * (1 + (s + 1)) = m * (1 + s) + m
    BY <1>1
  <1>3. m * (1 + s) \in Nat /\ m <= m * (1 + s)
    BY <1>1, <1>2
  <1> QED
    BY <1>2, <1>3 DEF m

CountersOK == edits \in Nat /\ mishaps \in Nat /\ faults \in Nat /\ stale \in Nat
KidsOK == kids \in [Ids -> Kid] /\ kidsSeen \in [Ids -> Kid]
DepOK == dep \in Deployment /\ depSeen \in Deployment /\ depOld \in BOOLEAN
LocOK == loc \in [available : Nat, old : BOOLEAN]
WorkOK == /\ pc \in {"idle", "create", "delete", "status"}
          /\ todo \in Nat /\ victims \in Seq(Ids) /\ running \in Nat

LEMMA TypeParts ==
  TypeOK <=> DepOK /\ LocOK /\ KidsOK /\ lag \in {"none", "dep", "kids"} /\ WorkOK /\ CountersOK
  BY DEF TypeOK, DepOK, LocOK, KidsOK, WorkOK, CountersOK

LEMMA TypePartsNext ==
  /\ DepOK' /\ LocOK' /\ KidsOK' /\ lag' \in {"none", "dep", "kids"} /\ WorkOK' /\ CountersOK'
  => TypeOK'
  BY DEF TypeOK, DepOK, LocOK, KidsOK, WorkOK, CountersOK

LEMMA ReturnType == Return => WorkOK' /\ LocOK'
  BY DEF Return, WorkOK, LocOK, NoCopy

LEMMA SetDepType ==
  ASSUME DepOK, NEW d \in Deployment, SetDep(d) PROVE DepOK'
  <1>1. dep' \in Deployment /\ depSeen' \in Deployment
    BY DEF SetDep, DepOK
  <1>2. depOld' \in BOOLEAN
    BY Zenon DEF SetDep
  <1> QED
    BY <1>1, <1>2 DEF DepOK

\* The children are changed, none is added, and the worker has no more to create.
LEMMA FewerKids ==
  ASSUME IInv, NEW ks \in [Ids -> Kid], SetKids(ks),
         \A k \in Ids : /\ ks[k].born <= MaxTime
                        /\ ks[k].life = "none" => ks[k] = NoKid
                        /\ ks[k] # NoKid => kids[k] # NoKid,
         TypeOK', Working', todo' = todo \/ todo' = 0, stale' = stale
  PROVE  IInv'
  <1>1. kids' = ks /\ kidsSeen' \in {ks, kidsSeen}
    BY DEF SetKids
  <1>2. Births'
    BY <1>1 DEF IInv, Births
  <1>3. /\ Present(ks) \subseteq Present(kids) /\ Present(kids) \subseteq Ids
    BY DEF Present
  <1>4. /\ Cardinality(Present(ks)) \in Nat /\ Cardinality(Present(kids)) \in Nat
        /\ Cardinality(Present(ks)) <= Cardinality(Present(kids))
    BY <1>3, Counting
  <1>5. Room'
    <2>1. todo \in Nat /\ stale \in Nat
      BY DEF IInv, TypeOK
    <2>2. Most * (1 + stale) \in Nat
      BY <2>1, OneMore
    <2>3. Cardinality(Present(ks)) + todo' <= Most * (1 + stale)
      BY <1>4, <2>1, <2>2 DEF IInv, Room
    <2>4. Present(kids)' = Present(ks)
      BY <1>1 DEF Present
    <2> QED
      BY <2>3, <2>4 DEF Room
  <1> QED
    BY <1>2, <1>5 DEF IInv

\* The same if the children are left alone.
LEMMA SameKids ==
  ASSUME IInv, kids' = kids, kidsSeen' \in {kids, kidsSeen},
         TypeOK', Working', todo' = todo \/ todo' = 0, stale' = stale
  PROVE  IInv'
  <1>1. Births'
    BY DEF IInv, Births
  <1>2. Room'
    <2>1. todo \in Nat /\ stale \in Nat /\ Cardinality(Present(kids)) \in Nat
      BY Counting DEF IInv, TypeOK, Present
    <2>2. Most * (1 + stale) \in Nat
      BY <2>1, OneMore
    <2>3. Cardinality(Present(kids)) + todo' <= Most * (1 + stale)
      BY <2>1, <2>2 DEF IInv, Room
    <2>4. Present(kids)' = Present(kids)
      BY DEF Present
    <2> QED
      BY <2>3, <2>4 DEF Room
  <1> QED
    BY <1>1, <1>2 DEF IInv

-----------------------------------------------------------------------------
(* Reconcile. *)

LEMMA NewestType ==
  ASSUME NEW ks, NEW n \in Nat \ {0}, NEW s \in Newest(ks, n)
  PROVE  s \in Seq(Ids) /\ s # <<>>
  <1>1. s \in [1..n -> Ids]
    BY DEF Newest, Owned
  <1>2. s \in Seq(Ids) /\ Len(s) = n
    BY <1>1
  <1> QED
    BY <1>2

LEMMA BeginStep == IInv /\ Begin => IInv'
  <1> SUFFICES ASSUME IInv, Begin PROVE IInv'
    OBVIOUS
  <1> DEFINE diff == depSeen.replicas - Cardinality(Owned(kidsSeen))
  <1>0. /\ UNCHANGED <<dep, depSeen, depOld, kids, kidsSeen, lag, edits, mishaps, faults>>
        /\ DepOK /\ LocOK /\ KidsOK /\ lag \in {"none", "dep", "kids"} /\ WorkOK /\ CountersOK
    BY TypeParts DEF Begin, IInv
  <1>1. /\ Owned(kidsSeen) \in SUBSET Ids /\ Owned(kids) \in SUBSET Ids
        /\ {k \in Owned(kidsSeen) : kidsSeen[k].state = "running"} \in SUBSET Ids
        /\ Present(kids) \in SUBSET Ids
    BY DEF Owned, Present
  <1>2. /\ Cardinality(Owned(kidsSeen)) \in Nat /\ Available(kidsSeen) \in Nat
        /\ Cardinality(Present(kids)) \in Nat /\ Cardinality(Owned(kids)) \in Nat
    BY <1>1, Counting DEF Available
  <1>3. /\ depSeen.replicas \in Nat /\ depSeen.replicas <= Most /\ Most \in Nat
        /\ depSeen.available \in Nat /\ stale \in Nat
    BY <1>0, MostIs DEF DepOK, Deployment, CountersOK
  <1>4. diff \in Int /\ diff <= Most
    BY <1>2, <1>3
  <1>5. /\ WorkOK' /\ Working' /\ todo' \in Nat /\ todo' <= Most
        /\ todo' = 0 \/ (todo' = diff /\ diff > 0)
    <2> HIDE DEF diff
    <2>1. running' \in Nat
      BY <1>2 DEF Begin
    <2>2. CASE diff > 0 /\ pc' = "create" /\ todo' = diff /\ victims' = <<>>
      BY <1>3, <1>4, <2>1, <2>2 DEF WorkOK, Working
    <2>3. CASE /\ diff < 0 /\ pc' = "delete" /\ todo' = 0
               /\ victims' \in Newest(kidsSeen, 0 - diff)
      <3>1. 0 - diff \in Nat \ {0}
        BY <1>4, <2>3
      <3>2. victims' \in Seq(Ids) /\ victims' # <<>>
        BY <2>3, <3>1, NewestType
      <3> QED
        BY <1>3, <2>1, <2>3, <3>2 DEF WorkOK, Working
    <2>4. CASE diff = 0 /\ pc' = "status" /\ todo' = 0 /\ victims' = <<>>
      BY <1>3, <2>1, <2>4 DEF WorkOK, Working
    <2> QED
      BY <2>2, <2>3, <2>4 DEF Begin, diff
  <1>6. stale' \in Nat /\ (stale' = stale + 1 \/ (stale' = stale /\ Owned(kidsSeen) = Owned(kids)))
    BY <1>3 DEF Begin
  <1>7. TypeOK'
    <2>1. LocOK'
      BY <1>0, <1>3 DEF Begin, LocOK, DepOK
    <2>2. CountersOK' /\ DepOK' /\ KidsOK'
      BY <1>0, <1>6 DEF CountersOK, DepOK, KidsOK
    <2> QED
      BY <1>0, <1>5, <2>1, <2>2, TypePartsNext
  <1>8. Births'
    BY <1>0 DEF IInv, Births
  <1>9. Room'
    <2>1. Present(kids)' = Present(kids) /\ Present(kids) = Owned(kids)
      BY <1>0, PresentIsOwned DEF Present, IInv
    <2>2. /\ Cardinality(Present(kids)) <= Most * (1 + stale)
          /\ Most * (1 + stale) \in Nat /\ Most <= Most * (1 + stale)
          /\ Most * (1 + (stale + 1)) = Most * (1 + stale) + Most
      BY <1>0, <1>2, <1>3, OneMore DEF IInv, Room, WorkOK
    <2> HIDE DEF diff
    <2>3. CASE todo' = 0
      BY <1>2, <1>3, <1>6, <2>1, <2>2, <2>3 DEF Room
    <2>4. CASE todo' = diff /\ stale' = stale /\ Owned(kidsSeen) = Owned(kids)
      <3>1. Cardinality(Present(kids)) + todo' = depSeen.replicas
        BY <1>2, <1>3, <2>1, <2>4 DEF diff
      <3> QED
        BY <1>3, <2>1, <2>2, <2>4, <3>1 DEF Room
    <2>5. CASE stale' = stale + 1
      BY <1>2, <1>3, <1>5, <2>1, <2>2, <2>5 DEF Room
    <2> QED
      BY <1>5, <1>6, <2>3, <2>4, <2>5
  <1> QED
    BY <1>5, <1>7, <1>8, <1>9 DEF IInv

LEMMA FaultType ==
  ASSUME CountersOK, Fault \/ Mishap \/ UNCHANGED counters
  PROVE  CountersOK' /\ stale' = stale
  BY DEF CountersOK, Fault, Mishap, counters

\* A call that fails ends the reconcile.
LEMMA ReturnStep ==
  ASSUME IInv, Return, Fault \/ UNCHANGED counters, UNCHANGED <<kids, kidsSeen, lag>>, DepOK'
  PROVE  IInv'
  <1>1. TypeOK'
    <2>1. KidsOK' /\ lag' \in {"none", "dep", "kids"} /\ WorkOK' /\ LocOK' /\ CountersOK'
      BY TypeParts, ReturnType, FaultType DEF IInv, KidsOK
    <2> QED
      BY <2>1, TypePartsNext
  <1>2. todo' = 0 /\ Working'
    BY DEF Return, Working
  <1>3. stale' = stale
    BY FaultType, TypeParts DEF IInv
  <1> QED
    BY <1>1, <1>2, <1>3, SameKids

LEMMA CreateStep == IInv /\ Create => IInv'
  <1> SUFFICES ASSUME IInv, Create PROVE IInv'
    OBVIOUS
  <1>0. /\ UNCHANGED <<dep, depSeen, depOld, lag>> /\ pc = "create"
        /\ DepOK /\ LocOK /\ KidsOK /\ lag \in {"none", "dep", "kids"} /\ WorkOK /\ CountersOK
        /\ DepOK'
    BY TypeParts DEF Create, IInv, DepOK
  <1>1. CASE Fault /\ Return /\ UNCHANGED <<kids, kidsSeen>>
    BY <1>0, <1>1, ReturnStep
  <1>2. ASSUME NEW t \in {Newborn, Newborn + 1}, t <= MaxTime, Unused # {},
               SetKids([kids EXCEPT ![Min(Unused)] = constructContainer(t)]),
               todo' = todo - 1, pc' = IF MoreToCreate THEN "create" ELSE "status",
               UNCHANGED <<loc, victims, running, counters>>
        PROVE  IInv'
    <2> DEFINE u == Min(Unused)
               B == {kids[k].born : k \in Ids} \cup {kidsSeen[k].born : k \in Ids}
               c == constructContainer(t)
               ks == [kids EXCEPT ![u] = c]
    <2>1. u \in Ids /\ kids[u] = NoKid
      <3>1. Unused \in SUBSET Nat
        BY BoundsAssumption DEF Unused, Ids
      <3>2. Min(Unused) \in Unused
        BY <1>2, <3>1, MinIs
      <3> QED
        BY <3>2 DEF Unused
    <2>2. Newborn \in Nat
      <3>1. \A x \in B : x \in Nat /\ x <= MaxTime
        BY <1>0 DEF KidsOK, Kid, IInv, Births
      <3>2. kids[u].born \in B
        BY <2>1
      <3> HIDE DEF B
      <3>3. B \in SUBSET Nat /\ B # {} /\ MaxTime \in Nat /\ \A x \in B : x <= MaxTime
        BY <3>1, <3>2, BoundsAssumption
      <3>4. Max(B) \in B
        BY <3>3, MaxIs
      <3> QED
        BY <3>1, <3>4 DEF Newborn, B
    <2>3. c \in Kid /\ c.born = t /\ c.life = "active" /\ c # NoKid /\ t \in Nat
      BY <1>2, <2>2, NoKidType DEF constructContainer, Kid, Lives
    <2> HIDE DEF u, c, B
    <2>4. /\ ks \in [Ids -> Kid] /\ ks[u] = c /\ \A k \in Ids : k # u => ks[k] = kids[k]
      BY <1>0, <2>1, <2>3 DEF KidsOK
    <2> HIDE DEF ks
    <2>5. kids' = ks /\ kidsSeen' \in {ks, kidsSeen}
      BY <1>2 DEF SetKids, ks, u, c
    <2>6. todo \in Nat /\ todo > 0 /\ todo' \in Nat
          /\ Working' /\ WorkOK'
      <3>1. todo \in Nat /\ todo > 0
        BY <1>0 DEF IInv, Working, WorkOK
      <3>2. IF todo > 1 THEN pc' = "create" ELSE pc' = "status"
        BY <1>2 DEF MoreToCreate
      <3> QED
        BY <1>0, <1>2, <3>1, <3>2 DEF Working, WorkOK
    <2>7. TypeOK'
      <3>1. KidsOK' /\ LocOK' /\ CountersOK'
        BY <1>0, <1>2, <2>4, <2>5 DEF KidsOK, LocOK, CountersOK, counters
      <3> QED
        BY <1>0, <2>6, <3>1, TypePartsNext
    <2>8. Births'
      BY <1>2, <2>3, <2>4, <2>5 DEF IInv, Births
    <2>9. Room'
      <3>1. /\ Present(ks) = Present(kids) \cup {u} /\ u \notin Present(kids)
            /\ Present(kids) \in SUBSET Ids
        BY <2>1, <2>3, <2>4 DEF Present
      <3>2. IsFiniteSet(Present(kids)) /\ Cardinality(Present(kids)) \in Nat
        BY <3>1, Counting
      <3>3. Cardinality(Present(ks)) = Cardinality(Present(kids)) + 1
        BY <3>1, <3>2, FS_AddElement
      <3>4. Present(kids)' = Present(ks) /\ stale' = stale
        BY <1>2, <2>5 DEF Present, counters
      <3>5. Most * (1 + stale) \in Nat
        BY <1>0, OneMore DEF CountersOK
      <3> QED
        BY <1>2, <2>6, <3>2, <3>3, <3>4, <3>5 DEF IInv, Room
    <2> QED
      BY <2>6, <2>7, <2>8, <2>9 DEF IInv
  <1> QED
    BY <1>1, <1>2 DEF Create

LEMMA DeleteStep == IInv /\ Delete => IInv'
  <1> SUFFICES ASSUME IInv, Delete PROVE IInv'
    OBVIOUS
  <1> DEFINE v == Head(victims)
  <1>0. /\ UNCHANGED <<dep, depSeen, depOld, lag>> /\ pc = "delete"
        /\ DepOK /\ LocOK /\ KidsOK /\ lag \in {"none", "dep", "kids"} /\ WorkOK /\ CountersOK
        /\ DepOK'
    BY TypeParts DEF Delete, IInv, DepOK
  <1>1. CASE Return /\ (Fault \/ UNCHANGED counters) /\ UNCHANGED <<kids, kidsSeen>>
    BY <1>0, <1>1, ReturnStep
  <1>2. CASE /\ kids[v] # NoKid /\ SetKids([kids EXCEPT ![v].life = "deleting"])
             /\ victims' = Tail(victims) /\ pc' = IF Len(victims) = 1 THEN "status" ELSE "delete"
             /\ UNCHANGED <<loc, todo, running, counters>>
    <2>1. victims \in Seq(Ids) /\ victims # <<>>
      BY <1>0 DEF IInv, Working, WorkOK
    <2>2. /\ v \in Ids /\ Tail(victims) \in Seq(Ids) /\ Len(victims) \in Nat \ {0}
          /\ Len(Tail(victims)) = Len(victims) - 1
      BY <2>1
    <2> DEFINE c == [kids[v] EXCEPT !.life = "deleting"]
               ks == [kids EXCEPT ![v] = c]
    <2>3. c \in Kid /\ c.life = "deleting" /\ c.born = kids[v].born
      BY <1>0, <2>2 DEF KidsOK, Kid, Lives
    <2>4. SetKids(ks)
      BY <1>2
    <2> HIDE DEF v, c
    <2>5. ks \in [Ids -> Kid] /\ \A k \in Ids : ks[k] = IF k = v THEN c ELSE kids[k]
      BY <1>0, <2>2, <2>3 DEF KidsOK
    <2> HIDE DEF ks
    <2>6. WorkOK' /\ Working'
      <3>1. Len(victims) # 1 => Tail(victims) # <<>>
        BY <2>2
      <3> QED
        BY <1>0, <1>2, <2>2, <3>1 DEF IInv, WorkOK, Working
    <2>7. TypeOK'
      <3>1. KidsOK' /\ LocOK' /\ CountersOK'
        BY <1>0, <1>2, <2>4, <2>5 DEF SetKids, KidsOK, LocOK, CountersOK, counters
      <3> QED
        BY <1>0, <2>6, <3>1, TypePartsNext
    <2>8. \A k \in Ids : /\ ks[k].born <= MaxTime
                         /\ ks[k].life = "none" => ks[k] = NoKid
                         /\ ks[k] # NoKid => kids[k] # NoKid
      BY <1>2, <2>2, <2>3, <2>5 DEF IInv, Births
    <2> QED
      BY <1>2, <2>4, <2>5, <2>6, <2>7, <2>8, FewerKids DEF counters
  <1> QED
    BY <1>1, <1>2 DEF Delete

LEMMA StatusStep == IInv /\ WriteStatus => IInv'
  <1> SUFFICES ASSUME IInv, WriteStatus PROVE IInv'
    OBVIOUS
  <1>1. DepOK /\ running \in Nat
    BY TypeParts DEF IInv, WorkOK
  <1>2. [dep EXCEPT !.available = running] \in Deployment
    BY <1>1 DEF DepOK, Deployment
  <1>3. DepOK'
    BY <1>1, <1>2, SetDepType DEF WriteStatus, DepOK
  <1> QED
    BY <1>3, ReturnStep DEF WriteStatus

-----------------------------------------------------------------------------
(* Everything else. *)

\* The deployment, the informers and the deployment's copy change, the children do not.
LEMMA DepStep ==
  ASSUME IInv, DepOK', LocOK', lag' \in {"none", "dep", "kids"},
         kids' = kids, kidsSeen' \in {kids, kidsSeen},
         UNCHANGED <<pc, todo, victims, running>>, CountersOK', stale' = stale
  PROVE  IInv'
  <1>1. KidsOK' /\ WorkOK'
    BY TypeParts DEF IInv, KidsOK, WorkOK
  <1>2. TypeOK'
    BY <1>1, TypePartsNext
  <1>3. Working'
    BY DEF IInv, Working
  <1> QED
    BY <1>2, <1>3, SameKids

\* A child changes or goes.
LEMMA KidStep ==
  ASSUME IInv, NEW k \in Ids, NEW c \in Kid, SetKids([kids EXCEPT ![k] = c]),
         c.born <= MaxTime, c.life = "none" => c = NoKid, kids[k] # NoKid,
         UNCHANGED <<dep, depSeen, depOld, lag, worker>>, UNCHANGED counters \/ Mishap
  PROVE  IInv'
  <1> DEFINE ks == [kids EXCEPT ![k] = c]
  <1>0. /\ DepOK /\ LocOK /\ KidsOK /\ lag \in {"none", "dep", "kids"} /\ WorkOK /\ CountersOK
    BY TypeParts DEF IInv
  <1>1. /\ ks \in [Ids -> Kid] /\ \A j \in Ids : ks[j] = IF j = k THEN c ELSE kids[j]
    BY <1>0 DEF KidsOK
  <1>2. SetKids(ks)
    OBVIOUS
  <1> HIDE DEF ks
  <1>3. CountersOK' /\ stale' = stale
    BY <1>0, FaultType
  <1>4. TypeOK'
    <2>1. DepOK' /\ LocOK' /\ lag' \in {"none", "dep", "kids"} /\ WorkOK'
      BY <1>0 DEF DepOK, LocOK, WorkOK, worker
    <2>2. KidsOK'
      BY <1>0, <1>1, <1>2 DEF KidsOK, SetKids
    <2> QED
      BY <1>3, <2>1, <2>2, TypePartsNext
  <1>5. Working' /\ todo' = todo
    BY DEF IInv, Working, worker
  <1>6. \A j \in Ids : /\ ks[j].born <= MaxTime
                       /\ ks[j].life = "none" => ks[j] = NoKid
                       /\ ks[j] # NoKid => kids[j] # NoKid
    BY <1>1 DEF IInv, Births
  <1> QED
    BY <1>1, <1>2, <1>3, <1>4, <1>5, <1>6, FewerKids

LEMMA KidSteps ==
  ASSUME NEW k \in Ids, IInv,
         Collect(k) \/ KidRuns(k) \/ KidStops(k) \/ KidDeleted(k) \/ KidGone(k)
  PROVE  IInv'
  <1>1. /\ kids \in [Ids -> Kid] /\ kids[k] \in Kid /\ kids[k].born <= MaxTime
        /\ kids[k].life # "none" => kids[k] # NoKid
    BY NoKidType DEF IInv, TypeOK, Births
  <1>2. UNCHANGED <<dep, depSeen, depOld, lag, worker>> /\ (UNCHANGED counters \/ Mishap)
    BY DEF Collect, KidRuns, KidStops, KidDeleted, KidGone
  <1>3. CASE KidGone(k)
    <2>1. kids[k] # NoKid /\ SetKids([kids EXCEPT ![k] = NoKid])
      BY <1>1, <1>3 DEF KidGone
    <2>2. NoKid \in Kid /\ NoKid.born <= MaxTime
      BY NoKidType, BoundsAssumption
    <2> QED
      BY <1>2, <2>1, <2>2, KidStep
  <1>4. CASE Collect(k) \/ KidDeleted(k)
    <2> DEFINE c == [kids[k] EXCEPT !.life = "deleting"]
    <2>1. c \in Kid /\ c.born = kids[k].born /\ c.life = "deleting"
      BY <1>1 DEF Kid, Lives
    <2>2. kids[k] # NoKid /\ SetKids([kids EXCEPT ![k] = c])
      BY <1>1, <1>4 DEF Collect, KidDeleted
    <2> HIDE DEF c
    <2> QED
      BY <1>1, <1>2, <2>1, <2>2, KidStep
  <1>5. ASSUME NEW s \in {"running", "pending"}, kids[k].life = "active",
               SetKids([kids EXCEPT ![k].state = s])
        PROVE  IInv'
    <2> DEFINE c == [kids[k] EXCEPT !.state = s]
    <2>1. c \in Kid /\ c.born = kids[k].born /\ c.life = "active"
      BY <1>1, <1>5 DEF Kid, Lives
    <2>2. kids[k] # NoKid /\ SetKids([kids EXCEPT ![k] = c])
      BY <1>1, <1>5
    <2> HIDE DEF c
    <2> QED
      BY <1>1, <1>2, <2>1, <2>2, KidStep
  <1>6. CASE KidRuns(k) \/ KidStops(k)
    BY <1>5, <1>6 DEF KidRuns, KidStops
  <1> QED
    BY <1>3, <1>4, <1>6

LEMMA OtherSteps ==
  ASSUME IInv,
         \/ UserDelete \/ FinishDeletion \/ FallBehind \/ CatchUp \/ Crash
         \/ \E n \in Replicas : UserScale(n)
         \/ UNCHANGED vars
  PROVE  IInv'
  <1>0. /\ DepOK /\ LocOK /\ KidsOK /\ lag \in {"none", "dep", "kids"} /\ WorkOK /\ CountersOK
        /\ dep \in Deployment
    BY TypeParts DEF IInv, DepOK
  <1>1. ASSUME NEW d \in Deployment, SetDep(d), loc' = [loc EXCEPT !.old = TRUE],
               UNCHANGED <<kids, kidsSeen, lag, pc, todo, victims, running, stale>>,
               CountersOK'
        PROVE  IInv'
    <2>1. DepOK' /\ LocOK'
      BY <1>0, <1>1, SetDepType DEF LocOK
    <2> QED
      BY <1>0, <1>1, <2>1, DepStep
  <1>2. ASSUME NEW n \in Replicas, UserScale(n) PROVE IInv'
    <2>1. [dep EXCEPT !.replicas = n] \in Deployment
      BY <1>0 DEF Deployment
    <2>2. CountersOK' /\ UNCHANGED stale
      BY <1>0, <1>2 DEF UserScale, CountersOK
    <2> QED
      BY <1>1, <1>2, <2>1, <2>2 DEF UserScale
  <1>3. CASE UserDelete \/ FinishDeletion
    <2>1. \A l \in {"deleting", "gone"} : [dep EXCEPT !.life = l] \in Deployment
      BY <1>0 DEF Deployment
    <2>2. CountersOK' /\ UNCHANGED stale
      BY <1>0, <1>3, FaultType DEF UserDelete, FinishDeletion
    <2> QED
      BY <1>1, <1>3, <2>1, <2>2 DEF UserDelete, FinishDeletion
  <1>4. CASE FallBehind \/ CatchUp
    <2>1. CountersOK' /\ stale' = stale
      BY <1>0, <1>4, FaultType DEF FallBehind, CatchUp
    <2>2. /\ DepOK' /\ LocOK' /\ lag' \in {"none", "dep", "kids"}
          /\ kids' = kids /\ kidsSeen' \in {kids, kidsSeen}
          /\ UNCHANGED <<pc, todo, victims, running>>
      BY <1>0, <1>4 DEF FallBehind, CatchUp, DepOK, LocOK, worker
    <2> QED
      BY <2>1, <2>2, DepStep
  <1>5. CASE Crash
    <2>1. CountersOK' /\ stale' = stale /\ WorkOK' /\ LocOK'
      BY <1>0, <1>5, FaultType, ReturnType DEF Crash
    <2>2. DepOK' /\ KidsOK' /\ lag' = "none" /\ kids' = kids /\ kidsSeen' = kids
      BY <1>0, <1>5 DEF Crash, DepOK, KidsOK
    <2>3. TypeOK'
      BY <2>1, <2>2, TypePartsNext
    <2>4. Working' /\ todo' = 0
      BY <1>5 DEF Crash, Return, Working
    <2> QED
      BY <2>1, <2>2, <2>3, <2>4, SameKids
  <1>6. CASE UNCHANGED vars
    <2>1. CountersOK' /\ DepOK' /\ LocOK' /\ stale' = stale
      BY <1>0, <1>6 DEF vars, counters, worker, CountersOK, DepOK, LocOK
    <2> QED
      BY <1>0, <1>6, <2>1, DepStep DEF vars, worker
  <1> QED
    BY <1>2, <1>3, <1>4, <1>5, <1>6

-----------------------------------------------------------------------------
(* The theorems. *)

LEMMA Initially == Init => IInv
  <1> SUFFICES ASSUME Init PROVE IInv
    OBVIOUS
  <1>1. dep \in Deployment /\ depSeen = dep
    BY DEF Init, Deployment
  <1>2. TypeOK
    <2>1. DepOK /\ LocOK
      BY <1>1 DEF Init, DepOK, LocOK, NoCopy
    <2>2. KidsOK /\ lag = "none" /\ WorkOK /\ CountersOK
      BY NoKidType DEF Init, KidsOK, WorkOK, CountersOK
    <2> QED
      BY <2>1, <2>2, TypeParts
  <1>3. Births /\ Working
    BY NoKidType, BoundsAssumption DEF Init, Births, Working
  <1>4. Room
    <2>1. Present(kids) = {}
      BY DEF Init, Present
    <2>2. Cardinality(Present(kids)) = 0
      BY <2>1, FS_EmptySet, Zenon
    <2>3. todo = 0 /\ stale \in Nat
      BY DEF Init
    <2>4. Most * (1 + stale) \in Nat
      BY <2>3, OneMore
    <2> QED
      BY <2>2, <2>3, <2>4 DEF Room
  <1> QED
    BY <1>2, <1>3, <1>4 DEF IInv

LEMMA Invariance == Spec => []IInv
  <1>1. IInv /\ [Next]_vars => IInv'
    BY BeginStep, CreateStep, DeleteStep, StatusStep, KidSteps, OtherSteps
    DEF Next, Reconcile, Done
  <1> QED
    BY <1>1, Initially, PTL DEF Spec

\* Every variable keeps its type; in particular what Reconcile still has to create is a
\* natural number and what it still has to delete are children (controller.go:76-106).
THEOREM Typing == Spec => []TypeOK
  <1>1. IInv => TypeOK
    BY DEF IInv
  <1> QED
    BY <1>1, Invariance, PTL

\* For all values of spec.replicas, and whatever is edited, deleted or missed, only
\* stale lists lead to more children than were ever asked for, and each to at most
\* that many more (controller.go:76-89).
THEOREM OvershootIsBounded == Spec => []OvershootBounded
  <1>1. IInv => OvershootBounded
    <2> SUFFICES ASSUME IInv PROVE OvershootBounded
      OBVIOUS
    <2>1. todo \in Nat /\ Cardinality(Present(kids)) \in Nat /\ Most * (1 + stale) \in Nat
      BY Counting, OneMore DEF IInv, TypeOK, Present
    <2> QED
      BY <2>1 DEF IInv, Room, OvershootBounded
  <1> QED
    BY <1>1, Invariance, PTL
=============================================================================
