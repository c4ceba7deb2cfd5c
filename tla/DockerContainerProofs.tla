------------------------ MODULE DockerContainerProofs ------------------------
(***************************************************************************)
(* NoOrphan, NoChurn and SecretsFirst of DockerContainer, for any number   *)
(* of objects, specs, edits, exits and faults, provided every object has a *)
(* container name of its own (OwnNames).                                   *)
(*                                                                         *)
(* None is inductive.  They rest on the cache never going back: what it    *)
(* holds, what is on its way to it and what the API server has are ordered *)
(* by Older.  Hence a container was built from a generation at most the    *)
(* cached one, drift means it was built from an older one (by Fixpoint),   *)
(* and nobody who still believes an object alive can be late.              *)
(***************************************************************************)
EXTENDS DockerContainer, TLAPS

Leaving == {"deleting", "gone"}
Syncing == {"list", "inspect", "status", "startFound", "stop", "remove",
            "create", "upload", "start"}

\* o is p or a version that p has replaced.
Older(o, p) ==
    /\ o.rv <= p.rv /\ (o.rv = p.rv => o = p)
    /\ o.gen <= p.gen /\ (o.gen = p.gen => o.spec = p.spec)
    /\ o.life = "active" => p.life # "new"
    /\ o.life \in Leaving => p.life \in Leaving

\* What the cache has and will have, in order, up to the API server's version;
\* once an object is gone no cached version of it is live.
KubeInv ==
    \A c \in CRs :
        /\ crs[c].spec \in Specs[c] /\ seen[c].spec \in Specs[c]
        /\ Older(seen[c], crs[c])
        /\ crs[c].life = "gone" => seen[c].life # "active"
        /\ \A i \in 1 .. Len(pending[c]) :
              /\ pending[c][i].spec \in Specs[c]
              /\ Older(seen[c], pending[c][i]) /\ Older(pending[c][i], crs[c])
              /\ crs[c].life = "gone" => pending[c][i].life # "active"
              /\ \A j \in 1 .. Len(pending[c]) :
                    i < j => Older(pending[c][i], pending[c][j])

\* The container was built from an earlier generation than o, or from o's spec.
Fits(k, o) ==
    \/ k.gen < o.gen
    \/ k.gen = o.gen /\ k.config = {BuildConfig(o.spec)}

\* A container belongs to the one object that has its name, which is not gone.
ContInv ==
    /\ \A c \in CRs : recreates[c] <= seen[c].gen
    /\ \A n \in Names : conts[n].state # "none" => conts[n].by # {}
    /\ \A c \in CRs, n \in Names : c \in conts[n].by =>
          /\ \A s \in Specs[c] : s.containerName = n
          /\ crs[c].life \in {"active", "deleting"}
          /\ Fits(conts[n], seen[c])
          /\ recreates[c] <= conts[n].gen

\* The worker's copy is no newer than the cache's, except for the finalizer.
CopyInv ==
    pc # "idle" =>
        /\ loc.spec \in Specs[cur] /\ Older(loc, crs[cur])
        /\ loc.gen <= seen[cur].gen
        /\ loc.gen = seen[cur].gen => loc.spec = seen[cur].spec
        /\ recreates[cur] <= loc.gen
        /\ \A n \in Names : cur \in conts[n].by => Fits(conts[n], loc)
        /\ pc = "addFinalizer" => loc.life = "new"
        /\ pc \in {"finalize", "dropFinalizer"} => seen[cur].life \in Leaving
        /\ pc = "dropFinalizer" => \A n \in Names : cur \notin conts[n].by
        /\ pc \in Syncing => crs[cur].life \in {"active", "deleting"}

\* What the worker has learnt of a container that is still there.
SnapInv ==
    /\ pc \in {"addFinalizer", "list", "inspect"} => snap.config = {}
    /\ pc \in {"status", "startFound"} /\ conts[name].state # "none" =>
          snap.config \subseteq conts[name].config
    /\ pc \in {"stop", "remove"} /\ conts[name].state # "none" =>
          conts[name].gen < loc.gen

IInv == TypeOK /\ KubeInv /\ ContInv /\ CopyInv /\ SnapInv

-----------------------------------------------------------------------------
(* Operators. *)

\* A container created from a spec never looks drifted to the same spec: what
\* createAndStartContainer writes, needsRecreate accepts.
THEOREM Fixpoint ==
  ASSUME NEW s
  PROVE  ~needsRecreate(BuildConfig(s), s)
  <1> DEFINE cfg == BuildConfig(s)
  <1>1. cfg.image = s.image /\ s.env \subseteq cfg.env
    BY DEF BuildConfig
  <1>2. /\ s.command # "Unset" => cfg.command = s.command
        /\ s.restartPolicy # "Unset" => cfg.restartPolicy = s.restartPolicy
    BY Zenon DEF BuildConfig
  <1>3. cfg.resources = buildDockerResources(s.resources)
    BY DEF BuildConfig
  <1> HIDE DEF cfg
  <1>4. ~needsRecreate(cfg, s)
    BY <1>1, <1>2, <1>3 DEF needsRecreate
  <1> QED
    BY <1>4 DEF cfg

LEMMA Updates ==
  ASSUME NEW o \in Object
  PROVE  /\ \A l \in Lives :
              /\ SetLife(o, l) \in Object
              /\ SetLife(o, l).life = l /\ SetLife(o, l).rv = o.rv + 1
              /\ SetLife(o, l).gen = o.gen /\ SetLife(o, l).spec = o.spec
         /\ \A st \in States :
              /\ SetReported(o, st) \in Object
              /\ SetReported(o, st).life = o.life /\ SetReported(o, st).rv = o.rv + 1
              /\ SetReported(o, st).gen = o.gen /\ SetReported(o, st).spec = o.spec
         /\ \A s \in AllSpecs :
              /\ Edited(o, s) \in Object
              /\ Edited(o, s).life = o.life /\ Edited(o, s).rv = o.rv + 1
              /\ Edited(o, s).gen = o.gen + 1 /\ Edited(o, s).spec = s
  <1>0. ASSUME NEW p \in Object
        PROVE  /\ Bump(p) \in Object /\ Bump(p).rv = p.rv + 1
               /\ Bump(p).life = p.life /\ Bump(p).gen = p.gen /\ Bump(p).spec = p.spec
    BY DEF Bump, Object
  <1>1. ASSUME NEW l \in Lives
        PROVE  /\ SetLife(o, l) \in Object
               /\ SetLife(o, l).life = l /\ SetLife(o, l).rv = o.rv + 1
               /\ SetLife(o, l).gen = o.gen /\ SetLife(o, l).spec = o.spec
    <2> DEFINE p == [o EXCEPT !.life = l]
    <2>1. p \in Object /\ p.life = l /\ p.rv = o.rv /\ p.gen = o.gen /\ p.spec = o.spec
      BY DEF Object
    <2>2. SetLife(o, l) = Bump(p)
      BY DEF SetLife
    <2> QED
      BY <1>0, <2>1, <2>2, Zenon
  <1>2. ASSUME NEW st \in States
        PROVE  /\ SetReported(o, st) \in Object
               /\ SetReported(o, st).life = o.life /\ SetReported(o, st).rv = o.rv + 1
               /\ SetReported(o, st).gen = o.gen /\ SetReported(o, st).spec = o.spec
    <2> DEFINE p == [o EXCEPT !.reported = st]
    <2>1. p \in Object /\ p.life = o.life /\ p.rv = o.rv /\ p.gen = o.gen /\ p.spec = o.spec
      BY DEF Object
    <2>2. SetReported(o, st) = Bump(p)
      BY DEF SetReported
    <2> QED
      BY <1>0, <2>1, <2>2, Zenon
  <1>3. ASSUME NEW s \in AllSpecs
        PROVE  /\ Edited(o, s) \in Object
               /\ Edited(o, s).life = o.life /\ Edited(o, s).rv = o.rv + 1
               /\ Edited(o, s).gen = o.gen + 1 /\ Edited(o, s).spec = s
    <2> DEFINE p == [o EXCEPT !.spec = s]
               q == [p EXCEPT !.gen = @ + 1]
    <2>1. p \in Object /\ p.life = o.life /\ p.rv = o.rv /\ p.gen = o.gen /\ p.spec = s
      BY DEF Object
    <2> HIDE DEF p
    <2>2. q \in Object /\ q.life = o.life /\ q.rv = o.rv /\ q.gen = o.gen + 1 /\ q.spec = s
      BY <2>1 DEF Object
    <2>3. Edited(o, s) = Bump(q)
      BY DEF Edited, p
    <2> QED
      BY <1>0, <2>2, <2>3, Zenon
  <1> QED
    BY <1>1, <1>2, <1>3

LEMMA ObjectFields ==
  ASSUME NEW o \in Object
  PROVE  o.life \in Lives /\ o.rv \in Nat /\ o.gen \in Nat /\ o.spec \in AllSpecs
         /\ o.reported \in States
  BY DEF Object

LEMMA OlderTrans ==
  ASSUME NEW o \in Object, NEW p \in Object, NEW q \in Object,
         Older(o, p), Older(p, q)
  PROVE  Older(o, q)
  BY ObjectFields DEF Older, Leaving, Lives

LEMMA OlderSelf ==
  ASSUME NEW o \in Object
  PROVE  Older(o, o)
  BY ObjectFields DEF Older

-----------------------------------------------------------------------------
(* The API server and the cache. *)

KubeType == /\ crs \in [CRs -> Object] /\ seen \in [CRs -> Object]
            /\ pending \in [CRs -> Seq(Object)]

\* A newer version is stored, and sent to the cache.
LEMMA StoreKube ==
  ASSUME KubeType, KubeInv, NEW c \in CRs, NEW o \in Object, Store(c, o),
         Older(crs[c], o), o.spec \in Specs[c],
         o.life = "gone" => /\ seen[c].life # "active"
                            /\ \A i \in 1 .. Len(pending[c]) : pending[c][i].life # "active"
  PROVE  /\ KubeInv' /\ KubeType' /\ seen' = seen
         /\ crs'[c] = o /\ \A d \in CRs : d # c => crs'[d] = crs[d]
  <1>1. /\ seen' = seen /\ crs'[c] = o /\ \A d \in CRs : d # c => crs'[d] = crs[d]
        /\ pending'[c] = Append(pending[c], o)
        /\ \A d \in CRs : d # c => pending'[d] = pending[d]
        /\ KubeType'
    BY DEF Store, KubeType
  <1>2. ASSUME NEW d \in CRs
        PROVE  /\ crs'[d].spec \in Specs[d] /\ seen'[d].spec \in Specs[d]
               /\ Older(seen'[d], crs'[d])
               /\ crs'[d].life = "gone" => seen'[d].life # "active"
               /\ \A i \in 1 .. Len(pending'[d]) :
                     /\ pending'[d][i].spec \in Specs[d]
                     /\ Older(seen'[d], pending'[d][i]) /\ Older(pending'[d][i], crs'[d])
                     /\ crs'[d].life = "gone" => pending'[d][i].life # "active"
                     /\ \A j \in 1 .. Len(pending'[d]) :
                           i < j => Older(pending'[d][i], pending'[d][j])
    <2>1. CASE d # c
      BY <1>1, <2>1 DEF KubeInv
    <2>2. CASE d = c
      <3> DEFINE q == pending[c]
      <3>0. q \in Seq(Object) /\ seen[c] \in Object /\ crs[c] \in Object
        BY DEF KubeType
      <3>1. /\ seen[c].spec \in Specs[c] /\ Older(seen[c], crs[c])
            /\ \A i \in 1 .. Len(q) :
                  /\ q[i].spec \in Specs[c] /\ q[i] \in Object
                  /\ Older(seen[c], q[i]) /\ Older(q[i], crs[c])
                  /\ \A j \in 1 .. Len(q) : i < j => Older(q[i], q[j])
        BY <3>0 DEF KubeInv
      <3>2. Older(seen[c], o) /\ \A i \in 1 .. Len(q) : Older(q[i], o)
        BY <3>0, <3>1, OlderTrans
      <3>3. Older(o, o)
        BY OlderSelf
      <3>4. /\ Len(Append(q, o)) = Len(q) + 1 /\ Len(q) \in Nat
            /\ Append(q, o)[Len(q) + 1] = o
            /\ \A i \in 1 .. Len(q) : Append(q, o)[i] = q[i]
        BY <3>0
      <3>a. o.life = "gone" => o.life # "active"
        OBVIOUS
      <3> HIDE DEF q
      <3>5. \A i \in 1 .. Len(q) + 1 :
               /\ Append(q, o)[i].spec \in Specs[c]
               /\ Older(seen[c], Append(q, o)[i]) /\ Older(Append(q, o)[i], o)
               /\ o.life = "gone" => Append(q, o)[i].life # "active"
        <4> SUFFICES ASSUME NEW i \in 1 .. Len(q) + 1
                     PROVE  /\ Append(q, o)[i].spec \in Specs[c]
                            /\ Older(seen[c], Append(q, o)[i]) /\ Older(Append(q, o)[i], o)
                            /\ o.life = "gone" => Append(q, o)[i].life # "active"
          OBVIOUS
        <4>1. CASE i = Len(q) + 1
          BY <3>2, <3>3, <3>4, <4>1
        <4>2. CASE i # Len(q) + 1
          <5>1. i \in 1 .. Len(q)
            BY <3>4, <4>2
          <5> QED
            BY <3>1, <3>2, <3>4, <5>1 DEF q
        <4> QED
          BY <4>1, <4>2
      <3>6. \A i, j \in 1 .. Len(q) + 1 : i < j => Older(Append(q, o)[i], Append(q, o)[j])
        <4> SUFFICES ASSUME NEW i \in 1 .. Len(q) + 1, NEW j \in 1 .. Len(q) + 1, i < j
                     PROVE  Older(Append(q, o)[i], Append(q, o)[j])
          OBVIOUS
        <4>1. i \in 1 .. Len(q) /\ Append(q, o)[i] = q[i]
          BY <3>4
        <4>2. CASE j = Len(q) + 1
          BY <3>2, <3>4, <4>1, <4>2
        <4>3. CASE j # Len(q) + 1
          <5>1. j \in 1 .. Len(q) /\ Append(q, o)[j] = q[j]
            BY <3>4, <4>3
          <5> QED
            BY <3>1, <4>1, <5>1
        <4> QED
          BY <4>2, <4>3
      <3>7. /\ crs'[d] = o /\ seen'[d] = seen[c] /\ pending'[d] = Append(q, o)
            /\ Specs[d] = Specs[c] /\ Len(pending'[d]) = Len(q) + 1
        BY <1>1, <2>2, <3>4 DEF q
      <3> QED
        BY <3>1, <3>2, <3>5, <3>6, <3>7
    <2> QED
      BY <2>1, <2>2
  <1> QED
    BY <1>1, <1>2 DEF KubeInv

\* The cache moves on to a version it has not seen yet.
LEMMA DeliverKube ==
  ASSUME KubeType, KubeInv, NEW c \in CRs, Deliver(c)
  PROVE  /\ KubeInv' /\ KubeType' /\ crs' = crs
         /\ \A d \in CRs : Older(seen[d], seen'[d])
  <1> DEFINE q == pending[c]
  <1>0. q \in Seq(Object) /\ q # <<>> /\ seen[c] \in Object /\ crs[c] \in Object
    BY DEF KubeType, Deliver
  <1>1. /\ Len(q) \in Nat /\ Len(q) > 0 /\ Head(q) = q[1] /\ Head(q) \in Object
        /\ Tail(q) \in Seq(Object) /\ Len(Tail(q)) = Len(q) - 1
        /\ \A i \in 1 .. Len(q) - 1 : Tail(q)[i] = q[i + 1]
    BY <1>0
  <1>2. /\ crs' = crs /\ seen'[c] = q[1] /\ pending'[c] = Tail(q)
        /\ \A d \in CRs : d # c => seen'[d] = seen[d] /\ pending'[d] = pending[d]
        /\ KubeType'
    BY <1>0, <1>1 DEF Deliver, KubeType
  <1>3. /\ crs[c].spec \in Specs[c]
        /\ \A i \in 1 .. Len(q) :
              /\ q[i].spec \in Specs[c]
              /\ Older(seen[c], q[i]) /\ Older(q[i], crs[c])
              /\ crs[c].life = "gone" => q[i].life # "active"
              /\ \A j \in 1 .. Len(q) : i < j => Older(q[i], q[j])
    BY DEF KubeInv
  <1> HIDE DEF q
  <1>4. 1 \in 1 .. Len(q) /\ \A i \in 1 .. Len(q) - 1 : i + 1 \in 1 .. Len(q) /\ 1 < i + 1
    BY <1>1
  <1>5. ASSUME NEW d \in CRs
        PROVE  /\ crs'[d].spec \in Specs[d] /\ seen'[d].spec \in Specs[d]
               /\ Older(seen'[d], crs'[d])
               /\ crs'[d].life = "gone" => seen'[d].life # "active"
               /\ \A i \in 1 .. Len(pending'[d]) :
                     /\ pending'[d][i].spec \in Specs[d]
                     /\ Older(seen'[d], pending'[d][i]) /\ Older(pending'[d][i], crs'[d])
                     /\ crs'[d].life = "gone" => pending'[d][i].life # "active"
                     /\ \A j \in 1 .. Len(pending'[d]) :
                           i < j => Older(pending'[d][i], pending'[d][j])
    <2>1. CASE d # c
      BY <1>2, <2>1 DEF KubeInv
    <2>2. CASE d = c
      <3>1. \A i \in 1 .. Len(q) - 1 :
               /\ Tail(q)[i].spec \in Specs[c]
               /\ Older(q[1], Tail(q)[i]) /\ Older(Tail(q)[i], crs[c])
               /\ crs[c].life = "gone" => Tail(q)[i].life # "active"
        BY <1>1, <1>3, <1>4
      <3>2. \A i, j \in 1 .. Len(q) - 1 : i < j => Older(Tail(q)[i], Tail(q)[j])
        <4> SUFFICES ASSUME NEW i \in 1 .. Len(q) - 1, NEW j \in 1 .. Len(q) - 1, i < j
                     PROVE  Older(Tail(q)[i], Tail(q)[j])
          OBVIOUS
        <4>1. Tail(q)[i] = q[i + 1] /\ Tail(q)[j] = q[j + 1] /\ i + 1 < j + 1
          BY <1>1
        <4> QED
          BY <1>3, <1>4, <4>1
      <3>3. /\ crs'[d] = crs[c] /\ seen'[d] = q[1] /\ pending'[d] = Tail(q)
            /\ Specs[d] = Specs[c] /\ Len(pending'[d]) = Len(q) - 1
        BY <1>1, <1>2, <2>2, Zenon
      <3> QED
        BY <1>3, <1>4, <3>1, <3>2, <3>3, Zenon
    <2> QED
      BY <2>1, <2>2
  <1>6. KubeInv'
    BY <1>5 DEF KubeInv
  <1>7. \A d \in CRs : Older(seen[d], seen'[d])
    <2> SUFFICES ASSUME NEW d \in CRs PROVE Older(seen[d], seen'[d])
      OBVIOUS
    <2>1. CASE d # c
      BY <1>2, <2>1, OlderSelf DEF KubeType
    <2>2. CASE d = c
      BY <1>2, <1>3, <1>4, <2>2
    <2> QED
      BY <2>1, <2>2
  <1> QED
    BY <1>2, <1>6, <1>7

\* After a restart the cache holds the API server's versions.
LEMMA CrashKube ==
  ASSUME KubeType, KubeInv, Crash
  PROVE  /\ KubeInv' /\ KubeType' /\ crs' = crs
         /\ \A d \in CRs : Older(seen[d], seen'[d])
  <1>1. /\ crs' = crs /\ seen' = crs /\ \A d \in CRs : pending'[d] = <<>>
        /\ KubeType' /\ \A d \in CRs : Len(pending'[d]) = 0 /\ crs[d] \in Object
    BY DEF Crash, KubeType
  <1>2. \A d \in CRs : Older(crs[d], crs[d])
    BY <1>1, OlderSelf
  <1>3. \A d \in CRs : Older(seen[d], crs[d]) /\ crs[d].spec \in Specs[d]
    BY DEF KubeInv
  <1>4. KubeInv'
    BY <1>1, <1>2, <1>3 DEF KubeInv
  <1> QED
    BY <1>1, <1>3, <1>4

-----------------------------------------------------------------------------
(* What every step that builds no container preserves. *)

\* No container is new: it is as before, gone, or in another state.
Shrunk ==
    \A n \in Names :
        \/ conts'[n] = conts[n]
        \/ conts'[n] = NoContainer
        \/ /\ conts[n].state # "none" /\ conts'[n].by = conts[n].by
           /\ conts'[n].gen = conts[n].gen /\ conts'[n].config = conts[n].config

\* The API server and the cache move forward, and no object with the finalizer
\* loses it.
Forward ==
    \A d \in CRs :
        /\ Older(crs[d], crs'[d]) /\ Older(seen[d], seen'[d])
        /\ crs[d].life \in {"active", "deleting"} => crs'[d].life \in {"active", "deleting"}

LEMMA FitsOlder ==
  ASSUME NEW k \in Container, NEW o \in Object, NEW p \in Object,
         Fits(k, o), Older(o, p)
  PROVE  Fits(k, p)
  <1>1. k.gen \in Nat /\ o.gen \in Nat /\ p.gen \in Nat
    BY DEF Container, Object
  <1> QED
    BY <1>1 DEF Fits, Older

LEMMA ContFrame ==
  ASSUME TypeOK, KubeType', conts' \in [Names -> Container], ContInv, Shrunk,
         recreates' = recreates, \A d \in CRs : Older(seen[d], seen'[d]),
         \A d \in CRs, n \in Names :
             d \in conts'[n].by => crs'[d].life \in {"active", "deleting"}
  PROVE  ContInv'
  <1>1. \A d \in CRs : recreates[d] <= seen'[d].gen
    <2> SUFFICES ASSUME NEW d \in CRs PROVE recreates[d] <= seen'[d].gen
      OBVIOUS
    <2>1. recreates[d] <= seen[d].gen /\ seen[d].gen <= seen'[d].gen
      BY DEF ContInv, Older
    <2>2. recreates[d] \in Nat /\ seen[d].gen \in Nat /\ seen'[d].gen \in Nat
      BY Zenon DEF TypeOK, KubeType, Object
    <2> QED
      BY <2>1, <2>2
  <1>2. NoContainer.by = {} /\ NoContainer.state = "none"
    BY DEF NoContainer
  <1>3. \A n \in Names : conts'[n].state # "none" => conts'[n].by # {}
    BY <1>2 DEF ContInv, Shrunk
  <1>4. ASSUME NEW c \in CRs, NEW n \in Names, c \in conts'[n].by
        PROVE  /\ \A s \in Specs[c] : s.containerName = n
               /\ Fits(conts'[n], seen'[c])
               /\ recreates[c] <= conts'[n].gen
    <2>1. /\ c \in conts[n].by /\ conts'[n].gen = conts[n].gen
          /\ conts'[n].config = conts[n].config
      BY <1>2, <1>4 DEF Shrunk
    <2>2. Fits(conts[n], seen'[c])
      <3>1. conts[n] \in Container /\ seen[c] \in Object /\ seen'[c] \in Object
        BY DEF TypeOK, KubeType
      <3>2. Fits(conts[n], seen[c])
        BY <2>1 DEF ContInv
      <3> QED
        BY <3>1, <3>2, FitsOlder
    <2> QED
      BY <2>1, <2>2 DEF ContInv, Fits
  <1> QED
    BY <1>1, <1>3, <1>4 DEF ContInv

LEMMA CopyFrame ==
  ASSUME TypeOK, KubeType', CopyInv, Shrunk, Forward,
         recreates' = recreates, cur' = cur, loc' = loc,
         pc' = pc \/ (pc \in Syncing /\ pc' \in Syncing)
  PROVE  CopyInv'
  <1> SUFFICES ASSUME pc' # "idle" PROVE CopyInv'
    BY DEF CopyInv
  <1>0. pc # "idle"
    BY DEF Syncing
  <1>1. /\ crs[cur] \in Object /\ crs'[cur] \in Object /\ seen[cur] \in Object
        /\ seen'[cur] \in Object /\ loc \in Object /\ cur \in CRs
    BY DEF TypeOK, KubeType
  <1>2. /\ Older(crs[cur], crs'[cur]) /\ Older(seen[cur], seen'[cur])
        /\ crs[cur].life \in {"active", "deleting"} => crs'[cur].life \in {"active", "deleting"}
    BY <1>1 DEF Forward
  <1>3. loc.spec \in Specs[cur] /\ Older(loc, crs'[cur])
    BY <1>0, <1>1, <1>2, OlderTrans DEF CopyInv
  <1>4. loc.gen <= seen'[cur].gen /\ (loc.gen = seen'[cur].gen => loc.spec = seen'[cur].spec)
    <2>1. loc.gen \in Nat /\ seen[cur].gen \in Nat /\ seen'[cur].gen \in Nat
      BY <1>1, ObjectFields
    <2> QED
      BY <1>0, <1>2, <2>1 DEF CopyInv, Older
  <1>5. \A n \in Names : cur \in conts'[n].by =>
           /\ cur \in conts[n].by /\ Fits(conts'[n], loc)
    BY <1>0 DEF CopyInv, Shrunk, NoContainer, Fits
  <1>6. /\ pc' = "addFinalizer" => loc.life = "new"
        /\ pc' \in Syncing => crs'[cur].life \in {"active", "deleting"}
    BY <1>0, <1>2 DEF CopyInv, Syncing
  <1>7. pc' \in {"finalize", "dropFinalizer"} => seen'[cur].life \in Leaving
    BY <1>0, <1>2 DEF CopyInv, Syncing, Older
  <1>8. pc' = "dropFinalizer" => \A n \in Names : cur \notin conts'[n].by
    BY <1>0, <1>5 DEF CopyInv, Syncing
  <1>9. recreates[cur] <= loc.gen
    BY <1>0 DEF CopyInv
  <1> QED
    BY <1>3, <1>4, <1>5, <1>6, <1>7, <1>8, <1>9 DEF CopyInv

\* What the worker has learnt stays true of the container, if it is still there.
LEMMA SnapFrame ==
  ASSUME TypeOK, SnapInv, CopyInv, Shrunk, cur' = cur, loc' = loc, snap' = snap, pc' = pc
  PROVE  SnapInv'
  <1>0. pc # "idle" => name \in Names
    BY DEF CopyInv, TypeOK, name, Names, Object
  <1>1. name' = name
    BY DEF name
  <1>2. name \in Names /\ conts'[name].state # "none" =>
           /\ conts[name].state # "none" /\ conts'[name].gen = conts[name].gen
           /\ conts'[name].config = conts[name].config
    BY DEF Shrunk, NoContainer
  <1> QED
    BY <1>0, <1>1, <1>2 DEF SnapInv

-----------------------------------------------------------------------------
(* Facts shared by the actions. *)

Snapshot == [state : States, config : SUBSET Configs]

LEMMA Returned ==
  ASSUME Return
  PROVE  /\ pc' \in PCs /\ cur' \in CRs /\ loc' \in Object /\ snap' \in Snapshot
         /\ CopyInv' /\ SnapInv'
  <1>a. AnyCR \in CRs
    BY SpecsAssumption DEF AnyCR
  <1>b. PICK s \in Specs[AnyCR] : TRUE
    BY <1>a, SpecsAssumption
  <1>c. s \in AllSpecs
    BY <1>a, <1>b DEF AllSpecs
  <1>d. AnySpec \in AllSpecs
    BY <1>c DEF AnySpec
  <1>1. AnyCR \in CRs /\ AnySpec \in AllSpecs
    BY <1>a, <1>d
  <1>2. Created(AnySpec) \in Object
    BY <1>1 DEF Created, Object, Lives, States
  <1>3. NoSnapshot \in Snapshot
    BY DEF NoSnapshot, Snapshot, States
  <1>4. pc' = "idle"
    BY DEF Return
  <1>5. CopyInv'
    BY <1>4 DEF CopyInv
  <1>6. SnapInv'
    BY <1>4 DEF SnapInv
  <1> QED
    BY <1>1, <1>2, <1>3, <1>4, <1>5, <1>6 DEF Return, PCs

LEMMA FaultType ==
  ASSUME TypeOK, Fault \/ NoFault
  PROVE  faults' \in Nat
  BY DEF TypeOK, Fault, NoFault

LEMMA KubeFrame ==
  ASSUME TypeOK, KubeInv, UNCHANGED kube
  PROVE  KubeInv' /\ KubeType' /\ Forward /\ crs' = crs /\ seen' = seen
  <1>1. crs' = crs /\ seen' = seen /\ pending' = pending
    BY DEF kube
  <1>2. KubeType'
    BY <1>1 DEF TypeOK, KubeType
  <1>3. KubeInv'
    BY <1>1 DEF KubeInv
  <1>4. Forward
    BY <1>1, OlderSelf DEF Forward, TypeOK
  <1> QED
    BY <1>1, <1>2, <1>3, <1>4

LEMMA RefusedKube ==
  ASSUME TypeOK, KubeInv, Refused
  PROVE  KubeInv' /\ KubeType' /\ Forward /\ crs' = crs /\ seen' = seen /\ faults' \in Nat
  <1>1. UNCHANGED kube /\ (Fault \/ NoFault)
    BY DEF Refused
  <1> QED
    BY <1>1, KubeFrame, FaultType

LEMMA Accepted ==
  ASSUME TypeOK, CopyInv, pc # "idle", Accepts
  PROVE  loc = crs[cur]
  BY DEF CopyInv, Accepts, Older

\* Containers and counters that a step leaves alone.
LEMMA NothingBuilt ==
  ASSUME TypeOK, ContInv, UNCHANGED <<conts, recreates>>
  PROVE  /\ Shrunk /\ conts' \in [Names -> Container] /\ recreates' \in [CRs -> Nat]
         /\ recreates' = recreates
         /\ \A d \in CRs, n \in Names :
               d \in conts'[n].by => crs[d].life \in {"active", "deleting"}
  <1>1. Shrunk
    BY DEF Shrunk
  <1> QED
    BY <1>1 DEF TypeOK, ContInv

\* Containers change their state or go; the steps of the worker that build none.
LEMMA StateChange ==
  ASSUME TypeOK, NEW n \in Names, NEW st \in States, conts[n].state # "none",
         conts' = [conts EXCEPT ![n].state = st]
  PROVE  Shrunk /\ conts' \in [Names -> Container]
  <1> DEFINE k == [conts[n] EXCEPT !.state = st]
  <1>1. conts[n] \in Container
    BY DEF TypeOK
  <1>2. /\ k \in Container /\ k.by = conts[n].by /\ k.gen = conts[n].gen
        /\ k.config = conts[n].config
    BY <1>1 DEF Container
  <1>3. conts' = [conts EXCEPT ![n] = k]
    OBVIOUS
  <1> HIDE DEF k
  <1> QED
    BY <1>2, <1>3, Zenon DEF TypeOK, Shrunk

LEMMA Removal ==
  ASSUME TypeOK, NEW n \in Names, conts' = [conts EXCEPT ![n] = NoContainer]
  PROVE  Shrunk /\ conts' \in [Names -> Container] /\ conts'[n] = NoContainer
  <1>1. NoContainer \in Container
    BY DEF NoContainer, Container, States
  <1> HIDE DEF NoContainer
  <1> QED
    BY <1>1 DEF TypeOK, Shrunk

LEMMA Unbuilt ==
  ASSUME TypeOK, ContInv, Shrunk
  PROVE  \A d \in CRs, n \in Names :
            d \in conts'[n].by => crs[d].life \in {"active", "deleting"}
  BY DEF Shrunk, ContInv, NoContainer

\* A step that ends the reconcile.
LEMMA EndForward ==
  ASSUME IInv, KubeInv', KubeType', Forward, Return, Shrunk,
         conts' \in [Names -> Container], recreates' = recreates,
         mishaps' = mishaps, Fault \/ NoFault
  PROVE  IInv'
  <1>0. TypeOK /\ KubeInv /\ ContInv
    BY DEF IInv
  <1>1. \A d \in CRs, n \in Names : d \in conts'[n].by => crs'[d].life \in {"active", "deleting"}
    BY <1>0, Unbuilt DEF Forward
  <1>2. ContInv'
    BY <1>0, <1>1, ContFrame DEF Forward
  <1>3. /\ pc' \in PCs /\ cur' \in CRs /\ loc' \in Object /\ snap' \in Snapshot
        /\ CopyInv' /\ SnapInv'
    BY Returned
  <1>4. faults' \in Nat
    BY <1>0, FaultType, Zenon
  <1>5. TypeOK'
    BY <1>0, <1>3, <1>4, Zenon DEF TypeOK, KubeType, Snapshot
  <1> QED
    BY <1>2, <1>3, <1>5, Zenon DEF IInv

\* A step within syncContainer, or one that leaves the worker alone.
LEMMA SyncForward ==
  ASSUME IInv, KubeInv', KubeType', Forward, Shrunk, conts' \in [Names -> Container],
         pc' = pc \/ (pc \in Syncing /\ pc' \in Syncing), cur' = cur, loc' = loc,
         snap' \in Snapshot, recreates' = recreates, mishaps' \in Nat, faults' \in Nat,
         SnapInv'
  PROVE  IInv'
  <1>0. TypeOK /\ KubeInv /\ ContInv /\ CopyInv
    BY Zenon DEF IInv
  <1>1. \A d \in CRs, n \in Names : d \in conts'[n].by => crs'[d].life \in {"active", "deleting"}
    BY <1>0, Unbuilt, Zenon DEF Forward
  <1>2. ContInv'
    BY <1>0, <1>1, ContFrame, Zenon DEF Forward
  <1>3. CopyInv'
    BY <1>0, CopyFrame, Zenon
  <1>4. pc' \in PCs
    BY <1>0, Zenon DEF Syncing, PCs, TypeOK
  <1>5. TypeOK'
    BY <1>0, <1>4, Zenon DEF TypeOK, KubeType, Snapshot
  <1> QED
    BY <1>2, <1>3, <1>5, Zenon DEF IInv

\* The same for steps that store nothing, and for steps of everyone else.
LEMMA EndStep ==
  ASSUME IInv, UNCHANGED kube, Return, Shrunk, conts' \in [Names -> Container],
         recreates' = recreates, mishaps' = mishaps, Fault \/ NoFault
  PROVE  IInv'
  BY KubeFrame, EndForward, Zenon DEF IInv

LEMMA SyncStep ==
  ASSUME IInv, UNCHANGED kube, Shrunk, conts' \in [Names -> Container],
         pc \in Syncing, pc' \in Syncing, cur' = cur, loc' = loc, snap' \in Snapshot,
         recreates' = recreates, mishaps' = mishaps, Fault \/ NoFault, SnapInv'
  PROVE  IInv'
  <1>1. mishaps' \in Nat /\ faults' \in Nat
    BY FaultType, Zenon DEF IInv, TypeOK
  <1> QED
    BY <1>1, KubeFrame, SyncForward, Zenon DEF IInv

LEMMA EnvStep ==
  ASSUME IInv, KubeInv', KubeType', Forward, Shrunk, conts' \in [Names -> Container],
         UNCHANGED <<worker, recreates, faults>>, mishaps' \in Nat
  PROVE  IInv'
  <1>1. /\ pc' = pc /\ cur' = cur /\ loc' = loc /\ snap' = snap /\ recreates' = recreates
        /\ TypeOK /\ SnapInv /\ CopyInv
    BY Zenon DEF worker, IInv
  <1>2. snap' \in Snapshot /\ faults' \in Nat
    BY <1>1, Zenon DEF TypeOK, Snapshot
  <1>3. SnapInv'
    BY <1>1, SnapFrame, Zenon
  <1> QED
    BY <1>1, <1>2, <1>3, SyncForward, Zenon

\* The container that has the worker's name is the one of its object.
LEMMA Mine ==
  ASSUME OwnNames, TypeOK, ContInv, CopyInv, pc # "idle"
  PROVE  /\ name \in Names
         /\ conts[name].state # "none" => cur \in conts[name].by
         /\ \A d \in CRs : d \in conts[name].by => d = cur
         /\ \A n \in Names : cur \in conts[n].by => n = name
         /\ \A s \in Specs[cur] : s.containerName = name
  <1>1. loc.spec \in Specs[cur] /\ cur \in CRs /\ loc.spec \in AllSpecs
    BY Zenon DEF CopyInv, TypeOK, Object
  <1>2. name \in Names
    BY <1>1, Zenon DEF name, Names
  <1>3. \A s \in Specs[cur] : s.containerName = name
    BY <1>1, Zenon DEF OwnNames, name
  <1>4. \A d \in CRs : d \in conts[name].by => d = cur
    <2> SUFFICES ASSUME NEW d \in CRs, d \in conts[name].by PROVE d = cur
      OBVIOUS
    <2>1. \A s \in Specs[d] : s.containerName = name
      BY <1>2, Zenon DEF ContInv
    <2>2. PICK s \in Specs[d] : TRUE
      BY SpecsAssumption, Zenon
    <2> QED
      BY <1>1, <2>1, <2>2 DEF OwnNames, name
  <1>5. conts[name].state # "none" => cur \in conts[name].by
    <2> SUFFICES ASSUME conts[name].state # "none" PROVE cur \in conts[name].by
      OBVIOUS
    <2>1. conts[name].by # {} /\ conts[name].by \subseteq CRs
      BY <1>2, Zenon DEF ContInv, TypeOK, Container
    <2> QED
      BY <1>4, <2>1, Zenon
  <1>6. \A n \in Names : cur \in conts[n].by => n = name
    BY <1>1, <1>3 DEF ContInv
  <1> QED
    BY <1>2, <1>3, <1>4, <1>5, <1>6, Zenon

-----------------------------------------------------------------------------
(* The actions of the worker. *)

LEMMA BeginStep ==
  ASSUME IInv, NEW c \in CRs, Begin(c)
  PROVE  IInv'
  <1>0. TypeOK /\ KubeInv /\ ContInv /\ UNCHANGED <<kube, conts, recreates, mishaps>>
    BY Zenon DEF IInv, Begin
  <1>1. KubeInv' /\ KubeType' /\ Forward /\ crs' = crs /\ seen' = seen
    BY <1>0, KubeFrame, Zenon
  <1>2. /\ Shrunk /\ conts' \in [Names -> Container] /\ recreates' \in [CRs -> Nat]
        /\ recreates' = recreates /\ conts' = conts
        /\ \A d \in CRs, n \in Names :
              d \in conts'[n].by => crs'[d].life \in {"active", "deleting"}
    BY <1>0, <1>1, NothingBuilt, Zenon
  <1>3. ContInv'
    BY <1>0, <1>1, <1>2, ContFrame, Zenon DEF Forward
  <1>4. /\ pc' = FirstCall(seen[c]) /\ cur' = c /\ loc' = seen[c] /\ snap' = NoSnapshot
        /\ seen[c].life # "gone" /\ seen[c] \in Object
    BY <1>0, Zenon DEF Begin, TypeOK
  <1>5. /\ pc' \in {"addFinalizer", "list", "finalize"}
        /\ pc' = "addFinalizer" => seen[c].life = "new"
        /\ pc' = "list" => seen[c].life = "active"
        /\ pc' = "finalize" => seen[c].life = "deleting"
    BY <1>4, ObjectFields, Zenon DEF FirstCall, Lives
  <1>6. NoSnapshot \in Snapshot /\ NoSnapshot.config = {}
    BY Zenon DEF NoSnapshot, Snapshot, States
  <1>7. TypeOK'
    <2>1. faults' \in Nat
      BY <1>0, FaultType, Zenon DEF Begin
    <2>2. pc' \in PCs
      BY <1>5, Zenon DEF PCs
    <2> QED
      BY <1>0, <1>1, <1>2, <1>4, <1>6, <2>1, <2>2, Zenon DEF TypeOK, KubeType, Snapshot
  <1>8. CopyInv'
    <2>1. /\ seen[c].spec \in Specs[c] /\ Older(seen[c], crs[c])
          /\ crs[c].life = "gone" => seen[c].life # "active"
          /\ recreates[c] <= seen[c].gen
          /\ \A n \in Names : c \in conts[n].by => Fits(conts[n], seen[c])
      BY <1>0, Zenon DEF KubeInv, ContInv
    <2>2. seen[c].gen \in Nat /\ crs[c].life \in Lives
      BY <1>0, <1>4, ObjectFields, Zenon DEF TypeOK
    <2>3. seen[c].life = "active" => crs[c].life \in {"active", "deleting"}
      BY <2>1, <2>2, Zenon DEF Older, Lives
    <2>4. /\ loc'.spec \in Specs[cur'] /\ Older(loc', crs'[cur'])
          /\ loc'.gen <= seen'[cur'].gen /\ loc'.spec = seen'[cur'].spec
          /\ recreates'[cur'] <= loc'.gen
          /\ \A n \in Names : cur' \in conts'[n].by => Fits(conts'[n], loc')
      <3>1. /\ cur' = c /\ loc' = seen[c] /\ crs' = crs /\ seen' = seen
            /\ conts' = conts /\ recreates' = recreates
        BY <1>1, <1>2, <1>4, Zenon
      <3>2. seen[c].gen <= seen[c].gen
        BY <2>2
      <3> QED
        BY <2>1, <2>2, <3>1, <3>2, Zenon
    <2>5. /\ pc' = "addFinalizer" => loc'.life = "new"
          /\ pc' = "finalize" => seen'[cur'].life \in Leaving
          /\ pc' = "list" => crs'[cur'].life \in {"active", "deleting"}
      BY <1>1, <1>4, <1>5, <2>3, Zenon DEF Leaving
    <2> QED
      BY <1>5, <2>4, <2>5, Zenon DEF CopyInv, Syncing
  <1>9. SnapInv'
    BY <1>4, <1>5, <1>6, Zenon DEF SnapInv
  <1> QED
    BY <1>1, <1>3, <1>7, <1>8, <1>9, Zenon DEF IInv

LEMMA AddFinalizerStep ==
  ASSUME IInv, AddFinalizer
  PROVE  IInv'
  <1>0. /\ TypeOK /\ KubeInv /\ ContInv /\ CopyInv /\ SnapInv /\ pc = "addFinalizer"
        /\ UNCHANGED <<conts, recreates, mishaps>> /\ KubeType /\ cur \in CRs
    BY Zenon DEF IInv, AddFinalizer, TypeOK, KubeType
  <1>1. CASE Accepts /\ NoFault /\ Store(cur, SetLife(loc, "active")) /\ pc' = "list"
             /\ loc' = SetLife(loc, "active") /\ UNCHANGED <<cur, snap>>
    <2> DEFINE o == SetLife(loc, "active")
    <2>1. loc = crs[cur] /\ loc.life = "new" /\ loc \in Object /\ loc.spec \in Specs[cur]
      BY <1>0, <1>1, Accepted, Zenon DEF CopyInv, TypeOK
    <2>2. /\ o \in Object /\ o.life = "active" /\ o.rv = loc.rv + 1 /\ o.gen = loc.gen
          /\ o.spec = loc.spec /\ loc.rv \in Nat /\ loc.gen \in Nat
      BY <2>1, Updates, ObjectFields, Zenon DEF Lives
    <2> HIDE DEF o
    <2>3. Older(crs[cur], o)
      BY <2>1, <2>2 DEF Older, Leaving
    <2>4. /\ KubeInv' /\ KubeType' /\ seen' = seen
          /\ crs'[cur] = o /\ \A d \in CRs : d # cur => crs'[d] = crs[d]
      BY <1>0, <1>1, <2>1, <2>2, <2>3, StoreKube, Zenon DEF o
    <2>5. /\ Shrunk /\ conts' \in [Names -> Container] /\ recreates' \in [CRs -> Nat]
          /\ recreates' = recreates /\ conts' = conts
          /\ \A d \in CRs, n \in Names :
                d \in conts'[n].by => crs[d].life \in {"active", "deleting"}
      BY <1>0, NothingBuilt, Zenon
    <2>6. ContInv'
      <3>1. \A d \in CRs : Older(seen[d], seen'[d])
        BY <1>0, <2>4, OlderSelf, Zenon DEF KubeType
      <3>2. \A d \in CRs, n \in Names :
               d \in conts'[n].by => crs'[d].life \in {"active", "deleting"}
        BY <2>2, <2>4, <2>5, Zenon
      <3> QED
        BY <1>0, <2>4, <2>5, <3>1, <3>2, ContFrame, Zenon
    <2>7. TypeOK'
      <3>1. faults' \in Nat
        BY <1>0, <1>1, FaultType, Zenon
      <3> QED
        BY <1>0, <1>1, <2>2, <2>4, <2>5, <3>1, Zenon DEF TypeOK, KubeType, PCs, o
    <2>8. CopyInv'
      <3>1. Older(o, o)
        BY <2>2, OlderSelf, Zenon
      <3>2. \A n \in Names : cur \in conts[n].by => Fits(conts[n], o)
        BY <1>0, <2>2, Zenon DEF CopyInv, Fits
      <3>3. /\ loc.gen <= seen[cur].gen /\ (loc.gen = seen[cur].gen => loc.spec = seen[cur].spec)
            /\ recreates[cur] <= loc.gen
        BY <1>0, Zenon DEF CopyInv
      <3>4. loc' = o /\ cur' = cur /\ pc' = "list"
        BY <1>1, Zenon DEF o
      <3> QED
        BY <2>1, <2>2, <2>4, <2>5, <3>1, <3>2, <3>3, <3>4, Zenon DEF CopyInv, Syncing
    <2>9. SnapInv'
      BY <1>0, <1>1, Zenon DEF SnapInv
    <2> QED
      BY <2>4, <2>6, <2>7, <2>8, <2>9, Zenon DEF IInv
  <1>2. CASE Refused /\ Return
    BY <1>0, <1>2, NothingBuilt, EndStep, Zenon DEF Refused
  <1> QED
    BY <1>1, <1>2, Zenon DEF AddFinalizer

LEMMA FinalizeStep ==
  ASSUME OwnNames, IInv, Finalize
  PROVE  IInv'
  <1>0. /\ TypeOK /\ KubeInv /\ ContInv /\ CopyInv /\ SnapInv /\ pc = "finalize"
        /\ UNCHANGED <<kube, recreates, mishaps>>
    BY Zenon DEF IInv, Finalize
  <1>1. name \in Names /\ \A n \in Names : cur \in conts[n].by => n = name
    BY <1>0, Mine, Zenon
  <1>2. CASE conts' = [conts EXCEPT ![name] = NoContainer] /\ NoFault /\ Goto("dropFinalizer")
    <2>1. Shrunk /\ conts' \in [Names -> Container] /\ conts'[name] = NoContainer
      BY <1>0, <1>1, <1>2, Removal, Zenon
    <2>2. KubeInv' /\ KubeType' /\ Forward /\ crs' = crs /\ seen' = seen
      BY <1>0, KubeFrame, Zenon
    <2>3. ContInv'
      BY <1>0, <2>1, <2>2, Unbuilt, ContFrame, Zenon DEF Forward
    <2>4. pc' = "dropFinalizer" /\ cur' = cur /\ loc' = loc /\ snap' = snap
      BY <1>2, Zenon DEF Goto
    <2>5. \A n \in Names : cur \notin conts'[n].by
      BY <1>1, <2>1 DEF Shrunk, NoContainer
    <2>6. CopyInv'
      BY <1>0, <2>2, <2>4, <2>5, Zenon DEF CopyInv, Syncing
    <2>7. SnapInv'
      BY <2>4, Zenon DEF SnapInv
    <2>8. faults' \in Nat
      BY <1>0, <1>2, FaultType, Zenon
    <2>9. TypeOK'
      BY <1>0, <2>1, <2>2, <2>4, <2>8, Zenon DEF TypeOK, KubeType, PCs
    <2> QED
      BY <2>2, <2>3, <2>6, <2>7, <2>9, Zenon DEF IInv
  <1>3. CASE Fault /\ Return /\ UNCHANGED conts
    BY <1>0, <1>3, NothingBuilt, EndStep, Zenon
  <1> QED
    BY <1>2, <1>3, Zenon DEF Finalize

LEMMA DropFinalizerStep ==
  ASSUME IInv, DropFinalizer
  PROVE  IInv'
  <1>0. /\ TypeOK /\ KubeInv /\ ContInv /\ CopyInv /\ pc = "dropFinalizer"
        /\ UNCHANGED <<conts, recreates, mishaps>> /\ KubeType /\ cur \in CRs /\ Return
    BY Zenon DEF IInv, DropFinalizer, TypeOK, KubeType
  <1>1. CASE Accepts /\ NoFault /\ Store(cur, SetLife(loc, "gone"))
    <2> DEFINE o == SetLife(loc, "gone")
    <2>1. loc = crs[cur] /\ loc \in Object /\ loc.spec \in Specs[cur]
      BY <1>0, <1>1, Accepted, Zenon DEF CopyInv, TypeOK
    <2>2. /\ o \in Object /\ o.life = "gone" /\ o.rv = loc.rv + 1 /\ o.gen = loc.gen
          /\ o.spec = loc.spec /\ loc.rv \in Nat /\ loc.gen \in Nat
      BY <2>1, Updates, ObjectFields, Zenon DEF Lives
    <2> HIDE DEF o
    <2>3. Older(crs[cur], o)
      BY <2>1, <2>2 DEF Older, Leaving
    <2>4. /\ seen[cur].life # "active"
          /\ \A i \in 1 .. Len(pending[cur]) : pending[cur][i].life # "active"
      <3>1. seen[cur].life \in Leaving
        BY <1>0, Zenon DEF CopyInv
      <3> QED
        BY <1>0, <3>1, Zenon DEF KubeInv, Older, Leaving
    <2>5. /\ KubeInv' /\ KubeType' /\ seen' = seen
          /\ crs'[cur] = o /\ \A d \in CRs : d # cur => crs'[d] = crs[d]
      BY <1>0, <1>1, <2>1, <2>2, <2>3, <2>4, StoreKube, Zenon DEF o
    <2>6. /\ Shrunk /\ conts' \in [Names -> Container] /\ recreates' \in [CRs -> Nat]
          /\ recreates' = recreates /\ conts' = conts
          /\ \A d \in CRs, n \in Names :
                d \in conts'[n].by => crs[d].life \in {"active", "deleting"}
      BY <1>0, NothingBuilt, Zenon
    <2>7. ContInv'
      <3>1. \A d \in CRs : Older(seen[d], seen'[d])
        BY <1>0, <2>5, OlderSelf, Zenon DEF KubeType
      <3>2. \A n \in Names : cur \notin conts[n].by
        BY <1>0, Zenon DEF CopyInv
      <3>3. \A d \in CRs, n \in Names :
               d \in conts'[n].by => crs'[d].life \in {"active", "deleting"}
        BY <2>5, <2>6, <3>2, Zenon
      <3> QED
        BY <1>0, <2>5, <2>6, <3>1, <3>3, ContFrame, Zenon
    <2>8. /\ pc' \in PCs /\ cur' \in CRs /\ loc' \in Object /\ snap' \in Snapshot
          /\ CopyInv' /\ SnapInv'
      BY <1>0, Returned, Zenon
    <2>9. TypeOK'
      <3>1. faults' \in Nat
        BY <1>0, <1>1, FaultType, Zenon
      <3> QED
        BY <1>0, <2>5, <2>6, <2>8, <3>1, Zenon DEF TypeOK, KubeType, Snapshot
    <2> QED
      BY <2>5, <2>7, <2>8, <2>9, Zenon DEF IInv
  <1>2. CASE Refused
    BY <1>0, <1>2, NothingBuilt, EndStep, Zenon DEF Refused
  <1> QED
    BY <1>1, <1>2, Zenon DEF DropFinalizer

LEMMA ListStep ==
  ASSUME IInv, List
  PROVE  IInv'
  <1>0. /\ TypeOK /\ ContInv /\ CopyInv /\ SnapInv /\ pc = "list"
        /\ UNCHANGED <<kube, conts, recreates, mishaps>>
    BY Zenon DEF IInv, List
  <1>1. CASE NoFault /\ Goto("create")
    <2>1. pc' = "create" /\ cur' = cur /\ loc' = loc /\ snap' = snap
      BY <1>1, Zenon DEF Goto
    <2>2. SnapInv'
      BY <2>1, Zenon DEF SnapInv
    <2>3. snap' \in Snapshot
      BY <1>0, <2>1, Zenon DEF TypeOK, Snapshot
    <2> QED
      BY <1>0, <1>1, <2>1, <2>2, <2>3, NothingBuilt, SyncStep, Zenon DEF Syncing
  <1>2. CASE /\ NoFault /\ pc' = "inspect"
             /\ snap' = [snap EXCEPT !.state = conts[name].state] /\ UNCHANGED <<cur, loc>>
    <2>1. conts[name].state \in States
      <3>1. loc.spec \in AllSpecs
        BY <1>0, ObjectFields, Zenon DEF TypeOK
      <3>2. name \in Names
        BY <3>1, Zenon DEF name, Names
      <3> QED
        BY <1>0, <3>2, Zenon DEF TypeOK, Container
    <2>2. snap' \in Snapshot /\ snap'.config = snap.config
      BY <1>0, <1>2, <2>1, Zenon DEF TypeOK, Snapshot
    <2>3. SnapInv'
      BY <1>0, <1>2, <2>2, Zenon DEF SnapInv
    <2> QED
      BY <1>0, <1>2, <2>2, <2>3, NothingBuilt, SyncStep, Zenon DEF Syncing
  <1>3. CASE Fault /\ Return
    BY <1>0, <1>3, NothingBuilt, EndStep, Zenon
  <1> QED
    BY <1>1, <1>2, <1>3, Zenon DEF List

LEMMA InspectStep ==
  ASSUME IInv, Inspect
  PROVE  IInv'
  <1>0. /\ TypeOK /\ ContInv /\ CopyInv /\ SnapInv /\ pc = "inspect" /\ pc' = "status"
        /\ UNCHANGED <<kube, cur, loc, conts, recreates, mishaps>> /\ (Fault \/ NoFault)
    BY Zenon DEF IInv, Inspect
  <1>1. snap' \in Snapshot /\ (snap'.config = {} \/ snap'.config = conts[name].config)
    <2>1. CASE snap' = [snap EXCEPT !.config = conts[name].config]
      <3>1. loc.spec \in AllSpecs
        BY <1>0, ObjectFields, Zenon DEF TypeOK
      <3>2. name \in Names
        BY <3>1, Zenon DEF name, Names
      <3>3. conts[name].config \in SUBSET Configs
        BY <1>0, <3>2, Zenon DEF TypeOK, Container
      <3> QED
        BY <1>0, <2>1, <3>3, Zenon DEF TypeOK, Snapshot
    <2>2. CASE UNCHANGED snap
      BY <1>0, <2>2, Zenon DEF TypeOK, Snapshot, SnapInv
    <2> QED
      BY <2>1, <2>2, Zenon DEF Inspect
  <1>2. SnapInv'
    <2>1. name' = name /\ conts' = conts
      BY <1>0, Zenon DEF name
    <2> QED
      BY <1>0, <1>1, <2>1, Zenon DEF SnapInv
  <1> QED
    BY <1>0, <1>1, <1>2, NothingBuilt, SyncStep, Zenon DEF Syncing

\* Drift means that the container was built from an older generation.
LEMMA DriftIsOld ==
  ASSUME OwnNames, IInv, pc \in {"status", "startFound"}, conts[name].state # "none",
         NEW cfg \in snap.config, needsRecreate(cfg, loc.spec)
  PROVE  conts[name].gen < loc.gen
  <1>1. TypeOK /\ ContInv /\ CopyInv /\ SnapInv
    BY Zenon DEF IInv
  <1>2. name \in Names /\ cur \in conts[name].by
    BY <1>1, Mine, Zenon
  <1>3. Fits(conts[name], loc) /\ cfg \in conts[name].config
    BY <1>1, <1>2, Zenon DEF CopyInv, SnapInv
  <1>4. conts[name].config # {BuildConfig(loc.spec)}
    BY <1>3, Fixpoint, Zenon
  <1> QED
    BY <1>3, <1>4, Zenon DEF Fits

\* What Continue(AfterStart) does, whatever becomes of the container's state.
LEMMA ContinueSnap ==
  ASSUME OwnNames, IInv, pc \in {"status", "startFound"}, Goto("stop"), Shrunk,
         \E cfg \in snap.config : needsRecreate(cfg, loc.spec)
  PROVE  SnapInv'
  <1>1. name' = name /\ loc' = loc /\ pc' = "stop"
    BY Zenon DEF Goto, name
  <1>2. TypeOK /\ ContInv /\ CopyInv
    BY Zenon DEF IInv
  <1>3. name \in Names
    BY <1>2, Mine, Zenon
  <1>4. conts[name].state # "none" => conts[name].gen < loc.gen
    BY DriftIsOld, Zenon
  <1>5. conts'[name].state # "none" => conts'[name].gen < loc.gen
    BY <1>3, <1>4 DEF Shrunk, NoContainer
  <1> QED
    BY <1>1, <1>5, Zenon DEF SnapInv

LEMMA WriteStatusStep ==
  ASSUME OwnNames, IInv, WriteStatus
  PROVE  IInv'
  <1>0. /\ TypeOK /\ KubeInv /\ ContInv /\ CopyInv /\ SnapInv /\ pc = "status"
        /\ UNCHANGED <<conts, recreates, mishaps>> /\ KubeType /\ cur \in CRs
        /\ Continue(AfterStatus)
    BY Zenon DEF IInv, WriteStatus, TypeOK, KubeType
  <1>1. Shrunk /\ conts' \in [Names -> Container] /\ recreates' = recreates /\ mishaps' = mishaps
    BY <1>0, NothingBuilt, Zenon
  <1>2. KubeInv' /\ KubeType' /\ Forward /\ (Fault \/ NoFault)
    <2>1. CASE UNCHANGED kube /\ NoFault
      BY <1>0, <2>1, KubeFrame, Zenon
    <2>2. CASE Accepts /\ NoFault /\ Store(cur, SetReported(loc, snap.state))
      <3> DEFINE o == SetReported(loc, snap.state)
      <3>1. loc = crs[cur] /\ loc \in Object /\ loc.spec \in Specs[cur] /\ snap.state \in States
        BY <1>0, <2>2, Accepted, Zenon DEF CopyInv, TypeOK
      <3>2. /\ o \in Object /\ o.life = loc.life /\ o.rv = loc.rv + 1 /\ o.gen = loc.gen
            /\ o.spec = loc.spec /\ loc.rv \in Nat /\ loc.gen \in Nat
        BY <3>1, Updates, ObjectFields, Zenon
      <3> HIDE DEF o
      <3>3. Older(crs[cur], o)
        BY <3>1, <3>2 DEF Older
      <3>4. o.life # "gone"
        BY <2>2, <3>1, <3>2, Zenon DEF Accepts
      <3>5. /\ KubeInv' /\ KubeType' /\ seen' = seen
            /\ crs'[cur] = o /\ \A d \in CRs : d # cur => crs'[d] = crs[d]
        BY <1>0, <2>2, <3>1, <3>2, <3>3, <3>4, StoreKube, Zenon DEF o
      <3>6. Forward
        <4> SUFFICES ASSUME NEW d \in CRs
                     PROVE  /\ Older(crs[d], crs'[d]) /\ Older(seen[d], seen'[d])
                            /\ crs[d].life \in {"active", "deleting"}
                                  => crs'[d].life \in {"active", "deleting"}
          BY Zenon DEF Forward
        <4>1. Older(seen[d], seen'[d]) /\ Older(crs[d], crs[d])
          BY <1>0, <3>5, OlderSelf, Zenon DEF KubeType
        <4> QED
          BY <3>1, <3>2, <3>3, <3>5, <4>1, Zenon
      <3> QED
        BY <2>2, <3>5, <3>6, Zenon
    <2>3. CASE Refused
      BY <1>0, <2>3, RefusedKube, Zenon DEF Refused
    <2> QED
      BY <2>1, <2>2, <2>3, Zenon DEF WriteStatus
  <1>3. mishaps' \in Nat /\ faults' \in Nat
    BY <1>0, <1>1, <1>2, FaultType, Zenon DEF TypeOK
  <1>4. CASE Return
    BY <1>1, <1>2, <1>4, EndForward, Zenon
  <1>5. CASE Goto("startFound") \/ (Goto("stop") /\ AfterStart = "stop")
    <2>1. /\ cur' = cur /\ loc' = loc /\ snap' = snap /\ pc' \in Syncing /\ pc \in Syncing
          /\ snap' \in Snapshot /\ name' = name /\ conts' = conts
      BY <1>0, <1>5, Zenon DEF Goto, Syncing, TypeOK, Snapshot, name
    <2>2. SnapInv'
      <3>1. CASE Goto("startFound")
        BY <1>0, <2>1, <3>1, Zenon DEF SnapInv, Goto
      <3>2. CASE Goto("stop") /\ AfterStart = "stop"
        BY <1>0, <1>1, <3>2, ContinueSnap, Zenon DEF AfterStart
      <3> QED
        BY <1>5, <3>1, <3>2, Zenon
    <2> QED
      BY <1>1, <1>2, <1>3, <2>1, <2>2, SyncForward, Zenon
  <1> QED
    BY <1>0, <1>4, <1>5, Zenon DEF Continue, AfterStatus, AfterStart

LEMMA StartStep ==
  ASSUME OwnNames, IInv, StartFound \/ StartContainer
  PROVE  IInv'
  <1>0. /\ TypeOK /\ ContInv /\ CopyInv /\ SnapInv /\ UNCHANGED <<kube, recreates, mishaps>>
        /\ \/ pc = "startFound" /\ Launch(AfterStart)
           \/ pc = "start" /\ Launch("idle")
    BY Zenon DEF IInv, StartFound, StartContainer
  <1>1. name \in Names
    BY <1>0, Mine, Zenon
  <1>2. CASE Return /\ UNCHANGED conts /\ (Fault \/ NoFault)
    BY <1>0, <1>2, NothingBuilt, EndStep, Zenon
  <1>3. CASE /\ Startable(name) /\ NoFault
             /\ conts' = [conts EXCEPT ![name].state = "running"]
             /\ Return \/ (pc = "startFound" /\ AfterStart = "stop" /\ Goto("stop"))
    <2>1. Shrunk /\ conts' \in [Names -> Container]
      BY <1>0, <1>1, <1>3, StateChange, Zenon DEF Startable, States
    <2>2. CASE Return
      BY <1>0, <1>3, <2>1, <2>2, EndStep, Zenon
    <2>3. CASE pc = "startFound" /\ AfterStart = "stop" /\ Goto("stop")
      <3>1. SnapInv'
        BY <2>1, <2>3, ContinueSnap, Zenon DEF AfterStart
      <3>2. /\ cur' = cur /\ loc' = loc /\ pc' \in Syncing /\ pc \in Syncing
            /\ snap' \in Snapshot
        BY <1>0, <2>3, Zenon DEF Goto, Syncing, TypeOK, Snapshot
      <3> QED
        BY <1>0, <1>3, <2>1, <3>1, <3>2, SyncStep, Zenon
    <2> QED
      BY <1>3, <2>2, <2>3, Zenon
  <1> QED
    BY <1>0, <1>2, <1>3, Zenon DEF Launch, Continue, AfterStart

LEMMA StopStep ==
  ASSUME OwnNames, IInv, Stop
  PROVE  IInv'
  <1>0. /\ TypeOK /\ ContInv /\ CopyInv /\ SnapInv /\ UNCHANGED <<kube, recreates, mishaps>>
        /\ pc = "stop" /\ Goto("remove") /\ (Fault \/ NoFault)
    BY Zenon DEF IInv, Stop
  <1>1. name \in Names
    BY <1>0, Mine, Zenon
  <1>2. Shrunk /\ conts' \in [Names -> Container]
    <2>1. CASE conts[name].state = "running" /\ conts' = [conts EXCEPT ![name].state = "exited"]
      BY <1>0, <1>1, <2>1, StateChange, Zenon DEF States
    <2>2. CASE UNCHANGED conts
      BY <1>0, <2>2, NothingBuilt, Zenon
    <2> QED
      BY <2>1, <2>2, Zenon DEF Stop
  <1>3. /\ cur' = cur /\ loc' = loc /\ pc' = "remove" /\ snap' \in Snapshot /\ name' = name
    BY <1>0, Zenon DEF Goto, TypeOK, Snapshot, name
  <1>4. SnapInv'
    <2>1. conts'[name].state # "none" => conts[name].state # "none" /\ conts'[name].gen = conts[name].gen
      <3>1. NoContainer.state = "none"
        BY Zenon DEF NoContainer
      <3>2. conts'[name].state # "none" => conts'[name] # NoContainer
        BY <3>1, Zenon
      <3> QED
        BY <1>1, <1>2, <3>2, Zenon DEF Shrunk
    <2> QED
      BY <1>0, <1>3, <2>1, Zenon DEF SnapInv
  <1> QED
    BY <1>0, <1>2, <1>3, <1>4, SyncStep, Zenon DEF Syncing

\* The counter grows, and the container from the older generation is gone.
LEMMA RemoveStep ==
  ASSUME OwnNames, IInv, Remove
  PROVE  IInv'
  <1>0. /\ TypeOK /\ KubeInv /\ ContInv /\ CopyInv /\ SnapInv /\ UNCHANGED <<kube, mishaps>>
        /\ pc = "remove" /\ cur \in CRs
    BY Zenon DEF IInv, Remove, TypeOK
  <1>1. /\ name \in Names /\ (conts[name].state # "none" => cur \in conts[name].by)
        /\ \A n \in Names : cur \in conts[n].by => n = name
    BY <1>0, Mine, Zenon
  <1>2. CASE Return /\ UNCHANGED <<conts, recreates>> /\ (Fault \/ NoFault)
    BY <1>0, <1>2, NothingBuilt, EndStep, Zenon
  <1>3. CASE /\ conts[name].state # "none" /\ NoFault
             /\ conts' = [conts EXCEPT ![name] = NoContainer]
             /\ recreates' = [recreates EXCEPT ![cur] = @ + 1]
             /\ Goto("create")
    <2>1. Shrunk /\ conts' \in [Names -> Container] /\ conts'[name] = NoContainer
      BY <1>0, <1>1, <1>3, Removal, Zenon
    <2>2. KubeInv' /\ KubeType' /\ Forward /\ crs' = crs /\ seen' = seen
      BY <1>0, KubeFrame, Zenon
    <2>3. /\ pc' = "create" /\ cur' = cur /\ loc' = loc /\ snap' = snap /\ faults' = faults
      BY <1>3, Zenon DEF Goto, NoFault
    <2>4. /\ recreates' \in [CRs -> Nat] /\ recreates'[cur] = recreates[cur] + 1
          /\ \A d \in CRs : d # cur => recreates'[d] = recreates[d]
      BY <1>0, <1>3 DEF TypeOK
    <2>5. recreates[cur] + 1 <= loc.gen /\ recreates[cur] + 1 <= seen[cur].gen
      <3>1. recreates[cur] <= conts[name].gen
        BY <1>0, <1>1, <1>3, Zenon DEF ContInv
      <3>2. conts[name].gen < loc.gen
        BY <1>0, <1>3, Zenon DEF SnapInv
      <3>3. loc.gen <= seen[cur].gen
        BY <1>0, Zenon DEF CopyInv
      <3>4. /\ recreates[cur] \in Nat /\ loc.gen \in Nat /\ seen[cur].gen \in Nat
            /\ conts[name].gen \in Nat
        BY <1>0, <1>1, Zenon DEF TypeOK, Container, Object
      <3>5. \A i, j, k, l \in Nat : i <= j /\ j < k /\ k <= l => i + 1 <= k /\ i + 1 <= l
        OBVIOUS
      <3> QED
        BY <3>1, <3>2, <3>3, <3>4, <3>5, Zenon
    <2>6. \A n \in Names : cur \notin conts'[n].by
      BY <1>1, <2>1 DEF Shrunk, NoContainer
    <2>7. ContInv'
      <3>1. \A d \in CRs : recreates'[d] <= seen'[d].gen
        BY <1>0, <2>2, <2>4, <2>5, Zenon DEF ContInv
      <3>2. ASSUME NEW n \in Names, conts'[n].state # "none"
            PROVE  conts'[n].by # {}
        <4>1. conts[n].state # "none" => conts[n].by # {}
          BY <1>0, Zenon DEF ContInv
        <4>2. conts'[n] # NoContainer
          BY <3>2 DEF NoContainer
        <4> QED
          BY <2>1, <3>2, <4>1, <4>2, Zenon DEF Shrunk
      <3>3. ASSUME NEW c \in CRs, NEW n \in Names, c \in conts'[n].by
            PROVE  /\ \A s \in Specs[c] : s.containerName = n
                   /\ crs'[c].life \in {"active", "deleting"}
                   /\ Fits(conts'[n], seen'[c])
                   /\ recreates'[c] <= conts'[n].gen
        <4>1. /\ c # cur /\ c \in conts[n].by /\ conts'[n].gen = conts[n].gen
              /\ conts'[n].config = conts[n].config
          <5>1. NoContainer.by = {}
            BY Zenon DEF NoContainer
          <5>2. conts'[n] # NoContainer /\ c # cur
            BY <2>6, <3>3, <5>1, Zenon
          <5> QED
            BY <2>1, <3>3, <5>2, Zenon DEF Shrunk
        <4> QED
          BY <1>0, <2>2, <2>4, <4>1, Zenon DEF ContInv, Fits
      <3> QED
        BY <3>1, <3>2, <3>3, Zenon DEF ContInv
    <2>8. CopyInv'
      BY <1>0, <2>2, <2>3, <2>4, <2>5, <2>6, Zenon DEF CopyInv, Syncing
    <2>9. SnapInv'
      BY <2>3, Zenon DEF SnapInv
    <2>10. TypeOK'
      BY <1>0, <2>1, <2>2, <2>3, <2>4, Zenon DEF TypeOK, KubeType, PCs
    <2> QED
      BY <2>2, <2>7, <2>8, <2>9, <2>10, Zenon DEF IInv
  <1> QED
    BY <1>2, <1>3, Zenon DEF Remove

\* The one step that builds a container: from the worker's generation.
LEMMA CreateContainerStep ==
  ASSUME OwnNames, IInv, CreateContainer
  PROVE  IInv'
  <1>0. /\ TypeOK /\ KubeInv /\ ContInv /\ CopyInv /\ UNCHANGED <<kube, recreates, mishaps>>
        /\ pc = "create" /\ cur \in CRs /\ loc \in Object
    BY Zenon DEF IInv, CreateContainer, TypeOK
  <1>1. /\ name \in Names /\ \A s \in Specs[cur] : s.containerName = name
        /\ \A n \in Names : cur \in conts[n].by => n = name
    BY <1>0, Mine, Zenon
  <1>2. CASE Return /\ UNCHANGED conts /\ (Fault \/ NoFault)
    BY <1>0, <1>2, NothingBuilt, EndStep, Zenon
  <1>3. CASE /\ NoFault /\ conts' = [conts EXCEPT ![name] = NewContainer(cur, loc)]
             /\ Goto(IF loc.spec.secretVolumes = {} THEN "start" ELSE "upload")
    <2> DEFINE k == NewContainer(cur, loc)
    <2>1. /\ k.by = {cur} /\ k.gen = loc.gen /\ k.config = {BuildConfig(loc.spec)}
          /\ k.state = "created" /\ k \in Container
      <3>1. BuildConfig(loc.spec) \in Configs /\ loc.gen \in Nat
        BY <1>0, ObjectFields, Zenon DEF Configs
      <3> QED
        BY <1>0, <3>1, Zenon DEF NewContainer, Container, States
    <2> HIDE DEF k
    <2>2. /\ conts' \in [Names -> Container] /\ conts'[name] = k
          /\ \A n \in Names : n # name => conts'[n] = conts[n]
      BY <1>0, <1>1, <1>3, <2>1, Zenon DEF TypeOK, k
    <2>3. KubeInv' /\ KubeType' /\ Forward /\ crs' = crs /\ seen' = seen
      BY <1>0, KubeFrame, Zenon
    <2>4. /\ pc' \in {"start", "upload"} /\ cur' = cur /\ loc' = loc /\ snap' = snap
          /\ faults' = faults
      BY <1>3, Zenon DEF Goto, NoFault
    <2>5. Fits(k, loc) /\ Fits(k, seen[cur]) /\ recreates[cur] <= k.gen
      <3>1. loc.gen \in Nat /\ seen[cur].gen \in Nat
        BY <1>0, Zenon DEF TypeOK, Object
      <3>2. /\ loc.gen <= seen[cur].gen /\ recreates[cur] <= loc.gen
            /\ loc.gen = seen[cur].gen => loc.spec = seen[cur].spec
        BY <1>0, Zenon DEF CopyInv
      <3>3. loc.gen = seen[cur].gen => k.config = {BuildConfig(seen[cur].spec)}
        BY <2>1, <3>2, Zenon
      <3>4. Fits(k, loc)
        BY <2>1, Zenon DEF Fits
      <3>5. Fits(k, seen[cur])
        BY <2>1, <3>1, <3>2, <3>3 DEF Fits
      <3>6. recreates[cur] <= k.gen
        BY <2>1, <3>2, Zenon
      <3> QED
        BY <3>4, <3>5, <3>6, Zenon
    <2>6. ContInv'
      <3>1. \A n \in Names : conts'[n].state # "none" => conts'[n].by # {}
        BY <1>0, <2>1, <2>2, Zenon DEF ContInv
      <3>2. ASSUME NEW c \in CRs, NEW n \in Names, c \in conts'[n].by
            PROVE  /\ \A s \in Specs[c] : s.containerName = n
                   /\ crs'[c].life \in {"active", "deleting"}
                   /\ Fits(conts'[n], seen'[c])
                   /\ recreates'[c] <= conts'[n].gen
        <4>1. CASE n = name
          <5>1. c = cur /\ conts'[n] = k
            BY <2>1, <2>2, <3>2, <4>1, Zenon
          <5>2. crs[cur].life \in {"active", "deleting"}
            BY <1>0, Zenon DEF CopyInv, Syncing
          <5> QED
            BY <1>0, <1>1, <2>3, <2>5, <4>1, <5>1, <5>2, Zenon
        <4>2. CASE n # name
          BY <1>0, <2>2, <2>3, <3>2, <4>2, Zenon DEF ContInv
        <4> QED
          BY <4>1, <4>2, Zenon
      <3> QED
        BY <1>0, <2>3, <3>1, <3>2, Zenon DEF ContInv
    <2>7. CopyInv'
      <3>1. \A n \in Names : cur \in conts'[n].by => Fits(conts'[n], loc)
        BY <1>1, <2>2, <2>5, Zenon
      <3> QED
        BY <1>0, <2>3, <2>4, <3>1, Zenon DEF CopyInv, Syncing
    <2>8. SnapInv'
      BY <2>4, Zenon DEF SnapInv
    <2>9. TypeOK'
      BY <1>0, <2>2, <2>3, <2>4, Zenon DEF TypeOK, KubeType, PCs
    <2> QED
      BY <2>3, <2>6, <2>7, <2>8, <2>9, Zenon DEF IInv
  <1> QED
    BY <1>2, <1>3, Zenon DEF CreateContainer

LEMMA UploadStep ==
  ASSUME OwnNames, IInv, Upload
  PROVE  IInv'
  <1>0. /\ TypeOK /\ ContInv /\ CopyInv /\ UNCHANGED <<kube, recreates, mishaps>>
        /\ pc = "upload" /\ loc.spec \in AllSpecs
    BY Zenon DEF IInv, Upload, TypeOK, Object
  <1>1. name \in Names
    BY <1>0, Mine, Zenon
  <1>2. ASSUME NEW S \in SUBSET loc.spec.secretVolumes, conts[name].state # "none",
               conts' = [conts EXCEPT ![name].secrets = S]
        PROVE  Shrunk /\ conts' \in [Names -> Container]
    <2> DEFINE k == [conts[name] EXCEPT !.secrets = S]
    <2>1. conts[name] \in Container /\ S \in SUBSET Secrets
      BY <1>0, <1>1, Zenon DEF TypeOK, Secrets
    <2>2. /\ k \in Container /\ k.by = conts[name].by /\ k.gen = conts[name].gen
          /\ k.config = conts[name].config
      BY <2>1, Zenon DEF Container
    <2>3. conts' = [conts EXCEPT ![name] = k]
      BY <1>2, Zenon
    <2> HIDE DEF k
    <2> QED
      BY <1>0, <1>1, <1>2, <2>2, <2>3, Zenon DEF TypeOK, Shrunk
  <1>3. CASE /\ conts[name].state # "none" /\ NoFault
             /\ conts' = [conts EXCEPT ![name].secrets = loc.spec.secretVolumes]
             /\ Goto("start")
    <2>1. Shrunk /\ conts' \in [Names -> Container]
      BY <1>2, <1>3, Zenon
    <2>2. /\ cur' = cur /\ loc' = loc /\ pc' = "start" /\ snap' \in Snapshot
      BY <1>0, <1>3, Zenon DEF Goto, TypeOK, Snapshot
    <2>3. SnapInv'
      BY <2>2, Zenon DEF SnapInv
    <2> QED
      BY <1>0, <1>3, <2>1, <2>2, <2>3, SyncStep, Zenon DEF Syncing
  <1>4. CASE /\ conts[name].state # "none" /\ Fault /\ Return
             /\ \E S \in SUBSET loc.spec.secretVolumes :
                   conts' = [conts EXCEPT ![name].secrets = S]
    <2>1. Shrunk /\ conts' \in [Names -> Container]
      BY <1>2, <1>4, Zenon
    <2> QED
      BY <1>0, <1>4, <2>1, EndStep, Zenon
  <1>5. CASE NoFault /\ Return /\ UNCHANGED conts
    BY <1>0, <1>5, NothingBuilt, EndStep, Zenon
  <1> QED
    BY <1>3, <1>4, <1>5, Zenon DEF Upload

-----------------------------------------------------------------------------
(* Users, the watch, crashes and the engine. *)

\* A user's write moves the API server forward.
LEMMA UserStore ==
  ASSUME IInv, NEW c \in CRs, NEW o \in Object, Store(c, o), Older(crs[c], o),
         o.spec \in Specs[c],
         crs[c].life \in {"active", "deleting"} => o.life \in {"active", "deleting"},
         o.life = "gone" => crs[c].life = "new",
         UNCHANGED <<worker, conts, recreates, mishaps, faults>>
  PROVE  IInv'
  <1>0. TypeOK /\ KubeInv /\ ContInv /\ KubeType
    BY Zenon DEF IInv, TypeOK, KubeType
  <1>1. o.life = "gone" => /\ seen[c].life # "active"
                           /\ \A i \in 1 .. Len(pending[c]) : pending[c][i].life # "active"
    BY <1>0, Zenon DEF KubeInv, Older
  <1>2. /\ KubeInv' /\ KubeType' /\ seen' = seen
        /\ crs'[c] = o /\ \A d \in CRs : d # c => crs'[d] = crs[d]
    BY <1>0, <1>1, StoreKube, Zenon
  <1>3. Forward
    <2> SUFFICES ASSUME NEW d \in CRs
                 PROVE  /\ Older(crs[d], crs'[d]) /\ Older(seen[d], seen'[d])
                        /\ crs[d].life \in {"active", "deleting"}
                              => crs'[d].life \in {"active", "deleting"}
      BY Zenon DEF Forward
    <2>1. Older(seen[d], seen'[d]) /\ Older(crs[d], crs[d])
      BY <1>0, <1>2, OlderSelf, Zenon DEF KubeType
    <2> QED
      BY <1>2, <2>1, Zenon
  <1>4. mishaps' \in Nat
    BY <1>0, Zenon DEF TypeOK
  <1> QED
    BY <1>0, <1>2, <1>3, <1>4, NothingBuilt, EnvStep, Zenon

LEMMA UserStep ==
  ASSUME IInv, NEW c \in CRs, UserDelete(c) \/ \E s \in Specs[c] : UserEdit(c, s)
  PROVE  IInv'
  <1>0. /\ crs[c] \in Object /\ crs[c].spec \in Specs[c] /\ crs[c].rv \in Nat
        /\ crs[c].gen \in Nat /\ crs[c].life \in {"new", "active"}
        /\ UNCHANGED <<worker, conts, recreates, mishaps, faults>>
    BY Zenon DEF IInv, TypeOK, KubeInv, Object, UserDelete, UserEdit
  <1>1. ASSUME NEW s \in Specs[c], UserEdit(c, s) PROVE IInv'
    <2> DEFINE o == Edited(crs[c], s)
    <2>1. s \in AllSpecs
      BY Zenon DEF AllSpecs
    <2>2. /\ o \in Object /\ o.life = crs[c].life /\ o.rv = crs[c].rv + 1
          /\ o.gen = crs[c].gen + 1 /\ o.spec = s
      BY <1>0, <2>1, Updates, Zenon
    <2>3. Store(c, o)
      BY <1>1, Zenon DEF UserEdit
    <2> HIDE DEF o
    <2>4. Older(crs[c], o)
      BY <1>0, <2>2 DEF Older
    <2> QED
      BY <1>0, <2>2, <2>3, <2>4, UserStore, Zenon
  <1>2. CASE UserDelete(c)
    <2> DEFINE l == IF crs[c].life = "new" THEN "gone" ELSE "deleting"
               o == SetLife(crs[c], l)
    <2>1. l \in Lives /\ (l = "gone" => crs[c].life = "new") /\ l \in Leaving
          /\ (crs[c].life = "active" => l = "deleting")
      BY Zenon DEF Lives, Leaving
    <2>2. /\ o \in Object /\ o.life = l /\ o.rv = crs[c].rv + 1
          /\ o.gen = crs[c].gen /\ o.spec = crs[c].spec
      <3> HIDE DEF l
      <3>1. crs[c] \in Object
        BY <1>0, Zenon DEF TypeOK
      <3> QED
        BY <2>1, <3>1, Updates, Zenon
    <2>3. Store(c, o)
      BY <1>2, Zenon DEF UserDelete
    <2> HIDE DEF o, l
    <2>4. Older(crs[c], o)
      BY <1>0, <2>1, <2>2 DEF Older, Leaving
    <2> QED
      BY <1>0, <2>1, <2>2, <2>3, <2>4, UserStore, Zenon
  <1> QED
    BY <1>1, <1>2, Zenon

LEMMA CacheStep ==
  ASSUME IInv, Crash \/ \E c \in CRs : Deliver(c)
  PROVE  IInv'
  <1>0. TypeOK /\ KubeInv /\ ContInv /\ KubeType /\ UNCHANGED <<conts, recreates, mishaps>>
    BY Zenon DEF IInv, TypeOK, KubeType, Crash, Deliver
  <1>1. /\ KubeInv' /\ KubeType' /\ crs' = crs
        /\ \A d \in CRs : Older(seen[d], seen'[d])
    BY <1>0, CrashKube, DeliverKube, Zenon
  <1>2. Forward
    BY <1>0, <1>1, OlderSelf, Zenon DEF Forward, KubeType
  <1>3. CASE Crash
    BY <1>0, <1>1, <1>2, <1>3, NothingBuilt, EndForward, Zenon DEF Crash
  <1>4. CASE \E c \in CRs : Deliver(c)
    <2>1. UNCHANGED <<worker, recreates, faults>> /\ mishaps' \in Nat
      BY <1>0, <1>4, Zenon DEF Deliver, TypeOK
    <2> QED
      BY <1>0, <1>1, <1>2, <2>1, NothingBuilt, EnvStep, Zenon
  <1> QED
    BY <1>3, <1>4, Zenon

LEMMA EngineStep ==
  ASSUME IInv, NEW n \in Names, Exit(n) \/ ForeignRemove(n)
  PROVE  IInv'
  <1>0. TypeOK /\ KubeInv /\ UNCHANGED kube /\ UNCHANGED <<worker, recreates, faults>>
    BY Zenon DEF IInv, Exit, ForeignRemove
  <1>1. mishaps' \in Nat
    BY <1>0 DEF Exit, ForeignRemove, Mishap, TypeOK
  <1>2. Shrunk /\ conts' \in [Names -> Container]
    <2>1. CASE Exit(n)
      BY <1>0, <2>1, StateChange, Zenon DEF Exit, States
    <2>2. CASE ForeignRemove(n)
      BY <1>0, <2>2, Removal, Zenon DEF ForeignRemove
    <2> QED
      BY <2>1, <2>2, Zenon
  <1> QED
    BY <1>0, <1>1, <1>2, KubeFrame, EnvStep, Zenon

-----------------------------------------------------------------------------
(* The theorems. *)

LEMMA InitIInv ==
  ASSUME Init
  PROVE  IInv
  <1>1. PICK f \in [CRs -> AllSpecs] : crs = [c \in CRs |-> Created(f[c])]
    BY Zenon DEF Init
  <1>2. \A c \in CRs : /\ crs[c] \in Object /\ crs[c].life = "new" /\ crs[c].gen = 0
                        /\ crs[c].spec \in Specs[c] /\ Older(crs[c], crs[c])
    <2> SUFFICES ASSUME NEW c \in CRs
                 PROVE  /\ crs[c] \in Object /\ crs[c].life = "new" /\ crs[c].gen = 0
                        /\ crs[c].spec \in Specs[c] /\ Older(crs[c], crs[c])
      OBVIOUS
    <2>1. crs[c] = Created(f[c]) /\ f[c] \in AllSpecs
      BY <1>1, Zenon
    <2>2. Created(f[c]) \in Object /\ Created(f[c]).life = "new" /\ Created(f[c]).gen = 0
      BY <2>1, Zenon DEF Created, Object, Lives, States
    <2>3. crs[c].spec \in Specs[c]
      BY Zenon DEF Init
    <2> QED
      BY <2>1, <2>2, <2>3, OlderSelf, Zenon
  <1>3. /\ seen = crs /\ \A c \in CRs : pending[c] = <<>> /\ Len(pending[c]) = 0
        /\ pending \in [CRs -> Seq(Object)]
    BY DEF Init
  <1>4. /\ NoContainer \in Container /\ NoContainer.state = "none" /\ NoContainer.by = {}
        /\ NoSnapshot \in [state : States, config : SUBSET Configs]
    BY Zenon DEF NoContainer, Container, States, NoSnapshot
  <1>5. AnyCR \in CRs
    BY SpecsAssumption, Zenon DEF AnyCR
  <1>6. Created(AnySpec) \in Object
    <2>1. f[AnyCR] \in AllSpecs
      BY <1>1, <1>5, Zenon
    <2>2. AnySpec \in AllSpecs
      BY <2>1, Zenon DEF AnySpec
    <2> QED
      BY <2>2, Zenon DEF Created, Object, Lives, States
  <1>7. crs \in [CRs -> Object]
    BY <1>1, <1>2, Zenon
  <1>8. TypeOK
    BY <1>3, <1>4, <1>5, <1>6, <1>7, Zenon DEF TypeOK, Init, PCs
  <1>9. KubeInv
    <2> SUFFICES ASSUME NEW c \in CRs
                 PROVE  /\ crs[c].spec \in Specs[c] /\ Older(crs[c], crs[c])
                        /\ crs[c].life # "gone" /\ Len(pending[c]) = 0
      <3>1. 1 .. 0 = {}
        OBVIOUS
      <3> QED
        BY <1>3, <3>1, Zenon DEF KubeInv
    <2> QED
      BY <1>2, <1>3, Zenon
  <1>10. ContInv
    <2>1. \A n \in Names : conts[n].state = "none" /\ conts[n].by = {}
      BY <1>4, Zenon DEF Init
    <2>2. \A c \in CRs : recreates[c] = 0 /\ seen[c].gen = 0
      BY <1>2, <1>3, Zenon DEF Init
    <2> QED
      BY <2>1, <2>2 DEF ContInv
  <1>11. CopyInv /\ SnapInv
    BY Zenon DEF CopyInv, SnapInv, Init
  <1> QED
    BY <1>8, <1>9, <1>10, <1>11, Zenon DEF IInv

LEMMA NextIInv ==
  ASSUME OwnNames, IInv, [Next]_vars
  PROVE  IInv'
  <1>1. CASE Step
    BY <1>1, AddFinalizerStep, FinalizeStep, DropFinalizerStep, ListStep, InspectStep,
       WriteStatusStep, StartStep, StopStep, RemoveStep, CreateContainerStep, UploadStep, Zenon
       DEF Step, syncContainer
  <1>2. CASE \E c \in CRs : Begin(c)
    BY <1>2, BeginStep, Zenon
  <1>3. CASE \E c \in CRs : UserDelete(c) \/ \E s \in Specs[c] : UserEdit(c, s)
    BY <1>3, UserStep, Zenon
  <1>4. CASE Crash \/ \E c \in CRs : Deliver(c)
    BY <1>4, CacheStep, Zenon
  <1>5. CASE \E n \in Names : Exit(n) \/ ForeignRemove(n)
    BY <1>5, EngineStep, Zenon
  <1>6. CASE UNCHANGED vars
    <2>1. /\ crs' = crs /\ seen' = seen /\ pending' = pending /\ pc' = pc /\ cur' = cur
          /\ loc' = loc /\ snap' = snap /\ conts' = conts /\ recreates' = recreates
          /\ mishaps' = mishaps /\ faults' = faults /\ name' = name
      BY <1>6, Zenon DEF vars, kube, worker, name
    <2>2. TypeOK' /\ KubeInv'
      BY <2>1 DEF IInv, TypeOK, KubeInv
    <2>3. ContInv'
      BY <2>1, Zenon DEF IInv, ContInv
    <2>4. CopyInv' /\ SnapInv'
      BY <2>1, Zenon DEF IInv, CopyInv, SnapInv
    <2> QED
      BY <2>2, <2>3, <2>4, Zenon DEF IInv
  <1> QED
    BY <1>1, <1>2, <1>3, <1>4, <1>5, <1>6, Zenon DEF Next, Done

\* The invariant behind the other theorems.
THEOREM Invariance ==
  ASSUME OwnNames
  PROVE  Spec => []IInv
  BY InitIInv, NextIInv, PTL DEF Spec

\* No container outlives its object, whatever fails, crashes or is read stale
\* between the finalizer's being set and its removal.
THEOREM OrphanFree ==
  ASSUME OwnNames
  PROVE  Spec => []NoOrphan
  <1>1. IInv => NoOrphan
    <2> SUFFICES ASSUME IInv PROVE NoOrphan
      OBVIOUS
    <2>1. ContInv
      BY Zenon DEF IInv
    <2> QED
      BY <2>1, Zenon DEF ContInv, NoOrphan
  <1> QED
    BY <1>1, Invariance, PTL

\* A container is recreated at most once per edit of its object's spec.
THEOREM ChurnFree ==
  ASSUME OwnNames
  PROVE  Spec => []NoChurn
  <1>1. IInv => NoChurn
    <2> SUFFICES ASSUME IInv, NEW c \in CRs PROVE recreates[c] <= crs[c].gen
      BY Zenon DEF NoChurn
    <2>1. recreates[c] <= seen[c].gen /\ seen[c].gen <= crs[c].gen
      BY Zenon DEF IInv, ContInv, KubeInv, Older
    <2>2. recreates[c] \in Nat /\ seen[c].gen \in Nat /\ crs[c].gen \in Nat
      BY Zenon DEF IInv, TypeOK, Object
    <2> QED
      BY <2>1, <2>2
  <1> QED
    BY <1>1, Invariance, PTL

-----------------------------------------------------------------------------
(* The secrets. *)

\* While nothing has failed, a container of an object's generation has the secrets
\* of the object's spec, unless the worker is between creating and furnishing it.
Furnished ==
    faults = 0 =>
        \A c \in CRs, n \in Names :
            c \in conts[n].by /\ conts[n].gen = crs[c].gen =>
                \/ conts[n].secrets = crs[c].spec.secretVolumes
                \/ pc = "upload" /\ c = cur /\ n = name /\ conts[n].state = "created"

\* An object keeps its spec or gets a new generation.
Generations ==
    \A c \in CRs : \/ crs'[c].gen = crs[c].gen /\ crs'[c].spec = crs[c].spec
                   \/ crs[c].gen < crs'[c].gen

\* A container goes, or keeps its secrets.
Keeps ==
    \A n \in Names :
        \/ conts'[n].by = {}
        \/ /\ conts'[n].by = conts[n].by /\ conts'[n].gen = conts[n].gen
           /\ conts'[n].secrets = conts[n].secrets
           /\ pc = "upload" /\ conts[n].state = "created" => conts'[n].state = "created"

\* A container is never ahead of its object.
LEMMA Behind ==
  ASSUME IInv, NEW c \in CRs, NEW n \in Names, c \in conts[n].by
  PROVE  conts[n].gen \in Nat /\ crs[c].gen \in Nat /\ conts[n].gen <= crs[c].gen
  <1>1. conts[n].gen \in Nat /\ seen[c].gen \in Nat /\ crs[c].gen \in Nat
    BY Zenon DEF IInv, TypeOK, Container, Object
  <1>2. Fits(conts[n], seen[c]) /\ seen[c].gen <= crs[c].gen
    BY Zenon DEF IInv, ContInv, KubeInv, Older
  <1> QED
    BY <1>1, <1>2 DEF Fits

LEMMA FurnishedFrame ==
  ASSUME IInv, Furnished, Generations, Keeps, faults' = faults \/ faults' # 0,
         pc # "upload" \/ UNCHANGED <<pc, cur, loc>>
  PROVE  Furnished'
  <1> SUFFICES ASSUME faults' = 0, NEW c \in CRs, NEW n \in Names,
                      c \in conts'[n].by, conts'[n].gen = crs'[c].gen
               PROVE  \/ conts'[n].secrets = crs'[c].spec.secretVolumes
                      \/ pc' = "upload" /\ c = cur' /\ n = name' /\ conts'[n].state = "created"
    BY Zenon DEF Furnished
  <1>1. /\ faults = 0 /\ c \in conts[n].by /\ conts'[n].gen = conts[n].gen
        /\ conts'[n].secrets = conts[n].secrets
        /\ pc = "upload" /\ conts[n].state = "created" => conts'[n].state = "created"
    BY Zenon DEF Keeps
  <1>2. crs'[c].gen = crs[c].gen /\ crs'[c].spec = crs[c].spec
    <2>1. conts[n].gen \in Nat /\ crs[c].gen \in Nat /\ conts[n].gen <= crs[c].gen
      BY <1>1, Behind, Zenon
    <2>2. conts[n].gen = crs'[c].gen
      BY <1>1, Zenon
    <2>3. ~(crs[c].gen < crs'[c].gen)
      BY <2>1, <2>2
    <2> QED
      BY <2>3, Zenon DEF Generations
  <1>3. pc = "upload" => UNCHANGED <<pc, cur, name>>
    BY Zenon DEF name
  <1> QED
    BY <1>1, <1>2, <1>3, Zenon DEF Furnished

LEMMA FaultCounts ==
  ASSUME TypeOK, Fault \/ NoFault
  PROVE  faults' = faults \/ faults' # 0
  BY DEF TypeOK, Fault, NoFault

LEMMA StoreGenerations ==
  ASSUME TypeOK, NEW c \in CRs, NEW o \in Object, Store(c, o),
         (o.gen = crs[c].gen /\ o.spec = crs[c].spec) \/ crs[c].gen < o.gen
  PROVE  Generations
  BY Zenon DEF TypeOK, Store, Generations

LEMMA KubeGenerations ==
  ASSUME TypeOK, CopyInv,
         \/ UNCHANGED crs
         \/ /\ pc # "idle" /\ Accepts
            /\ \/ \E l \in Lives : Store(cur, SetLife(loc, l))
               \/ \E st \in States : Store(cur, SetReported(loc, st))
  PROVE  Generations
  <1>1. CASE UNCHANGED crs
    BY <1>1, Zenon DEF Generations
  <1>2. cur \in CRs /\ loc \in Object
    BY Zenon DEF TypeOK
  <1>3. ASSUME pc # "idle", Accepts, NEW l \in Lives, Store(cur, SetLife(loc, l))
        PROVE  Generations
    <2>1. loc = crs[cur]
      BY <1>3, Accepted, Zenon
    <2>2. /\ SetLife(loc, l) \in Object
          /\ SetLife(loc, l).gen = crs[cur].gen /\ SetLife(loc, l).spec = crs[cur].spec
      BY <1>2, <2>1, Updates, Zenon
    <2> QED
      BY <1>2, <1>3, <2>2, StoreGenerations, Zenon
  <1>4. ASSUME pc # "idle", Accepts, NEW st \in States, Store(cur, SetReported(loc, st))
        PROVE  Generations
    <2>1. loc = crs[cur]
      BY <1>4, Accepted, Zenon
    <2>2. /\ SetReported(loc, st) \in Object
          /\ SetReported(loc, st).gen = crs[cur].gen /\ SetReported(loc, st).spec = crs[cur].spec
      BY <1>2, <2>1, Updates, Zenon
    <2> QED
      BY <1>2, <1>4, <2>2, StoreGenerations, Zenon
  <1> QED
    BY <1>1, <1>3, <1>4, Zenon

LEMMA StateKeeps ==
  ASSUME TypeOK, NEW n \in Names,
         \/ UNCHANGED conts
         \/ conts' = [conts EXCEPT ![n] = NoContainer]
         \/ /\ \E st \in States : conts' = [conts EXCEPT ![n].state = st]
            /\ pc # "upload" \/ conts[n].state # "created"
  PROVE  Keeps
  <1>1. CASE UNCHANGED conts
    BY <1>1, Zenon DEF Keeps
  <1>2. CASE conts' = [conts EXCEPT ![n] = NoContainer]
    <2>1. NoContainer.by = {}
      BY Zenon DEF NoContainer
    <2> HIDE DEF NoContainer
    <2> QED
      BY <1>2, <2>1, Zenon DEF TypeOK, Keeps
  <1>3. ASSUME NEW st \in States, conts' = [conts EXCEPT ![n].state = st],
               pc # "upload" \/ conts[n].state # "created"
        PROVE  Keeps
    <2> DEFINE k == [conts[n] EXCEPT !.state = st]
    <2>1. conts[n] \in Container
      BY Zenon DEF TypeOK
    <2>2. k.by = conts[n].by /\ k.gen = conts[n].gen /\ k.secrets = conts[n].secrets
      BY <2>1, Zenon DEF Container
    <2>3. conts' = [conts EXCEPT ![n] = k]
      BY <1>3, Zenon
    <2> HIDE DEF k
    <2> QED
      BY <1>3, <2>2, <2>3, Zenon DEF TypeOK, Keeps
  <1> QED
    BY <1>1, <1>2, <1>3, Zenon

\* The worker's steps that neither create nor furnish a container.
LEMMA FurnishedSync ==
  ASSUME OwnNames, IInv, Furnished,
         \/ AddFinalizer \/ Finalize \/ DropFinalizer \/ List \/ Inspect \/ WriteStatus
         \/ StartFound \/ Stop \/ Remove \/ StartContainer
  PROVE  Furnished'
  <1>0. /\ TypeOK /\ ContInv /\ CopyInv /\ pc # "idle" /\ pc # "upload"
        /\ snap.state \in States
    BY Zenon DEF IInv, TypeOK, AddFinalizer, Finalize, DropFinalizer, List, Inspect, WriteStatus,
           StartFound, Stop, Remove, StartContainer
  <1>1. name \in Names
    BY <1>0, Mine, Zenon
  <1>2. Fault \/ NoFault
    BY Zenon DEF AddFinalizer, Finalize, DropFinalizer, List, Inspect, WriteStatus,
           StartFound, Stop, Remove, StartContainer, Launch, Refused
  <1>3. Generations
    <2>1. CASE AddFinalizer \/ DropFinalizer
      <3>1. UNCHANGED kube \/ (Accepts /\ \E l \in Lives : Store(cur, SetLife(loc, l)))
        BY <2>1, Zenon DEF AddFinalizer, DropFinalizer, Refused, Lives
      <3> QED
        BY <1>0, <3>1, KubeGenerations, Zenon DEF kube
    <2>2. CASE WriteStatus
      <3>1. UNCHANGED kube \/ (Accepts /\ Store(cur, SetReported(loc, snap.state)))
        BY <2>2, Zenon DEF WriteStatus, Refused
      <3> QED
        BY <1>0, <3>1, KubeGenerations, Zenon DEF kube
    <2>3. CASE Finalize \/ List \/ Inspect \/ StartFound \/ Stop \/ Remove \/ StartContainer
      <3>1. UNCHANGED crs
        BY <2>3, Zenon DEF Finalize, List, Inspect, StartFound, Stop, Remove, StartContainer, kube
      <3> QED
        BY <1>0, <3>1, KubeGenerations, Zenon
    <2> QED
      BY <2>1, <2>2, <2>3, Zenon
  <1>4. Keeps
    <2>1. \/ UNCHANGED conts
          \/ conts' = [conts EXCEPT ![name] = NoContainer]
          \/ \E st \in States : conts' = [conts EXCEPT ![name].state = st]
      BY Zenon DEF AddFinalizer, Finalize, DropFinalizer, List, Inspect, WriteStatus,
             StartFound, Stop, Remove, StartContainer, Launch, States
    <2> QED
      BY <1>0, <1>1, <2>1, StateKeeps, Zenon
  <1> QED
    BY <1>0, <1>2, <1>3, <1>4, FaultCounts, FurnishedFrame, Zenon

\* When the worker's generation is the object's, so is its spec.
LEMMA SameGeneration ==
  ASSUME CopyInv, pc # "idle", loc.gen = crs[cur].gen
  PROVE  loc.spec = crs[cur].spec
  BY Zenon DEF CopyInv, Older

LEMMA FurnishedCreate ==
  ASSUME OwnNames, IInv, Furnished, CreateContainer
  PROVE  Furnished'
  <1>0. /\ TypeOK /\ ContInv /\ CopyInv /\ UNCHANGED crs /\ pc = "create"
        /\ Generations /\ cur \in CRs /\ (Fault \/ NoFault)
    BY KubeGenerations, Zenon DEF IInv, TypeOK, CreateContainer, kube
  <1>1. name \in Names
    BY <1>0, Mine, Zenon
  <1>2. CASE UNCHANGED conts
    <2>1. Keeps
      BY <1>0, <1>1, <1>2, StateKeeps, Zenon
    <2> QED
      BY <1>0, <2>1, FaultCounts, FurnishedFrame, Zenon
  <1>3. CASE /\ NoFault /\ conts' = [conts EXCEPT ![name] = NewContainer(cur, loc)]
             /\ Goto(IF loc.spec.secretVolumes = {} THEN "start" ELSE "upload")
    <2> DEFINE k == NewContainer(cur, loc)
    <2>1. k.by = {cur} /\ k.gen = loc.gen /\ k.secrets = {} /\ k.state = "created"
      BY Zenon DEF NewContainer
    <2> HIDE DEF k
    <2>2. conts'[name] = k /\ \A n \in Names : n # name => conts'[n] = conts[n]
      BY <1>0, <1>1, <1>3, Zenon DEF TypeOK, k
    <2>3. /\ cur' = cur /\ name' = name /\ faults' = faults
          /\ pc' = "upload" \/ loc.spec.secretVolumes = {}
      BY <1>3, Zenon DEF Goto, NoFault, name
    <2> SUFFICES ASSUME faults = 0, NEW c \in CRs, NEW n \in Names,
                        c \in conts'[n].by, conts'[n].gen = crs[c].gen
                 PROVE  \/ conts'[n].secrets = crs[c].spec.secretVolumes
                        \/ pc' = "upload" /\ c = cur' /\ n = name' /\ conts'[n].state = "created"
      BY <1>0, <2>3, Zenon DEF Furnished
    <2>4. CASE n = name
      <3>1. c = cur /\ conts'[n] = k /\ loc.gen = crs[cur].gen
        BY <2>1, <2>2, <2>4, Zenon
      <3>2. loc.spec = crs[cur].spec
        BY <1>0, <3>1, SameGeneration, Zenon
      <3> QED
        BY <2>1, <2>3, <2>4, <3>1, <3>2, Zenon
    <2>5. CASE n # name
      BY <1>0, <2>2, <2>5, Zenon DEF Furnished
    <2> QED
      BY <2>4, <2>5, Zenon
  <1> QED
    BY <1>2, <1>3, Zenon DEF CreateContainer

LEMMA FurnishedUpload ==
  ASSUME OwnNames, IInv, Furnished, Upload
  PROVE  Furnished'
  <1>0. /\ TypeOK /\ ContInv /\ CopyInv /\ UNCHANGED crs /\ pc = "upload"
        /\ cur \in CRs /\ loc.gen \in Nat /\ faults \in Nat
    BY ObjectFields, Zenon DEF IInv, TypeOK, Upload, kube
  <1>1. name \in Names /\ \A d \in CRs : d \in conts[name].by => d = cur
    BY <1>0, Mine, Zenon
  <1>2. CASE Fault
    BY <1>0, <1>2 DEF Fault, Furnished
  <1>3. CASE conts[name].state = "none" /\ NoFault /\ UNCHANGED conts
    BY <1>0, <1>3, Zenon DEF Furnished, NoFault
  <1>4. CASE /\ NoFault /\ conts' = [conts EXCEPT ![name].secrets = loc.spec.secretVolumes]
    <2> DEFINE k == [conts[name] EXCEPT !.secrets = loc.spec.secretVolumes]
    <2>1. conts[name] \in Container
      BY <1>0, <1>1, Zenon DEF TypeOK
    <2>2. /\ k.by = conts[name].by /\ k.gen = conts[name].gen
          /\ k.secrets = loc.spec.secretVolumes
      BY <2>1, Zenon DEF Container
    <2>3. conts' = [conts EXCEPT ![name] = k]
      BY <1>4, Zenon
    <2> HIDE DEF k
    <2>4. conts'[name] = k /\ \A n \in Names : n # name => conts'[n] = conts[n]
      BY <1>0, <1>1, <2>3, Zenon DEF TypeOK
    <2> SUFFICES ASSUME faults = 0, NEW c \in CRs, NEW n \in Names,
                        c \in conts'[n].by, conts'[n].gen = crs[c].gen
                 PROVE  conts'[n].secrets = crs[c].spec.secretVolumes
      BY <1>0, <1>4 DEF Furnished, NoFault
    <2>5. CASE n = name
      <3>1. c = cur /\ c \in conts[name].by /\ conts[name].gen = crs[cur].gen
        BY <1>1, <2>2, <2>4, <2>5, Zenon
      <3>2. /\ Fits(conts[name], loc) /\ loc.gen <= crs[cur].gen
        BY <1>0, <1>1, <3>1, Zenon DEF CopyInv, Older
      <3>3. loc.gen = crs[cur].gen
        <4>1. crs[cur].gen \in Nat /\ loc.gen \in Nat
          BY <1>0, <1>1, ObjectFields, Zenon DEF TypeOK
        <4>2. conts[name].gen < loc.gen \/ conts[name].gen = loc.gen
          BY <3>2, Zenon DEF Fits
        <4> QED
          BY <3>1, <3>2, <4>1, <4>2
      <3>4. loc.spec = crs[cur].spec
        BY <1>0, <3>3, SameGeneration, Zenon
      <3> QED
        BY <2>2, <2>4, <2>5, <3>1, <3>4, Zenon
    <2>6. CASE n # name
      BY <2>4, <2>6, Zenon DEF Furnished
    <2> QED
      BY <2>5, <2>6, Zenon
  <1> QED
    BY <1>2, <1>3, <1>4, Zenon DEF Upload

LEMMA FurnishedElse ==
  ASSUME IInv, Furnished,
         \/ Crash \/ UNCHANGED vars
         \/ \E c \in CRs : Begin(c) \/ UserDelete(c) \/ Deliver(c)
         \/ \E c \in CRs : \E s \in Specs[c] : UserEdit(c, s)
         \/ \E n \in Names : Exit(n) \/ ForeignRemove(n)
  PROVE  Furnished'
  <1>0. TypeOK /\ CopyInv /\ faults \in Nat
    BY Zenon DEF IInv, TypeOK
  <1>1. CASE Crash
    <2>1. faults' # 0
      BY <1>0, <1>1 DEF Crash, Fault
    <2> QED
      BY <2>1, Zenon DEF Furnished
  <1>2. ASSUME NEW c \in CRs, NEW o \in Object, Store(c, o),
               (o.gen = crs[c].gen /\ o.spec = crs[c].spec) \/ crs[c].gen < o.gen,
               UNCHANGED <<worker, conts, faults>>
        PROVE  Furnished'
    <2>1. Generations
      BY <1>0, <1>2, StoreGenerations, Zenon
    <2>2. Keeps
      BY <1>2, Zenon DEF Keeps
    <2> QED
      BY <1>2, <2>1, <2>2, FurnishedFrame, Zenon DEF worker
  <1>3. ASSUME NEW c \in CRs, UserDelete(c) PROVE Furnished'
    <2> DEFINE l == IF crs[c].life = "new" THEN "gone" ELSE "deleting"
    <2>1. crs[c] \in Object /\ l \in Lives
      BY <1>0, Zenon DEF TypeOK, Lives
    <2>2. Store(c, SetLife(crs[c], l)) /\ UNCHANGED <<worker, conts, faults>>
      BY <1>3, Zenon DEF UserDelete
    <2> HIDE DEF l
    <2>3. /\ SetLife(crs[c], l) \in Object
          /\ SetLife(crs[c], l).gen = crs[c].gen /\ SetLife(crs[c], l).spec = crs[c].spec
      BY <2>1, Updates, Zenon
    <2> QED
      BY <1>2, <2>2, <2>3, Zenon
  <1>4. ASSUME NEW c \in CRs, NEW s \in Specs[c], UserEdit(c, s) PROVE Furnished'
    <2>0. crs[c] \in Object /\ crs[c].gen \in Nat
      BY <1>0, ObjectFields, Zenon DEF TypeOK
    <2>1. crs[c] \in Object /\ s \in AllSpecs /\ crs[c].gen \in Nat
      BY <2>0, Zenon DEF AllSpecs
    <2>2. Store(c, Edited(crs[c], s)) /\ UNCHANGED <<worker, conts, faults>>
      BY <1>4, Zenon DEF UserEdit
    <2>3. Edited(crs[c], s) \in Object /\ Edited(crs[c], s).gen = crs[c].gen + 1
      BY <2>1, Updates, Zenon
    <2>4. crs[c].gen < Edited(crs[c], s).gen
      <3> DEFINE g == crs[c].gen
      <3>1. g \in Nat /\ Edited(crs[c], s).gen = g + 1
        BY <2>1, <2>3, Zenon
      <3> HIDE DEF g
      <3>2. g < g + 1
        BY <3>1
      <3> QED
        BY <3>1, <3>2, Zenon DEF g
    <2> QED
      BY <1>2, <2>2, <2>3, <2>4, Zenon
  <1>5. ASSUME NEW c \in CRs, Begin(c) \/ Deliver(c) PROVE Furnished'
    <2>1. UNCHANGED <<crs, conts>> /\ (Fault \/ NoFault)
      BY <1>5, Zenon DEF Begin, Deliver, kube, NoFault
    <2>2. pc # "upload" \/ UNCHANGED <<pc, cur, loc>>
      BY <1>5, Zenon DEF Begin, Deliver, worker
    <2>3. Generations /\ Keeps
      BY <2>1, Zenon DEF Generations, Keeps
    <2> QED
      BY <1>0, <2>1, <2>2, <2>3, FaultCounts, FurnishedFrame, Zenon
  <1>6. ASSUME NEW n \in Names, Exit(n) \/ ForeignRemove(n) PROVE Furnished'
    <2>1. UNCHANGED <<crs, pc, cur, loc, faults>>
      BY <1>6, Zenon DEF Exit, ForeignRemove, kube, worker
    <2>2. Generations
      BY <2>1, Zenon DEF Generations
    <2>3. Keeps
      BY <1>0, <1>6, StateKeeps, Zenon DEF Exit, ForeignRemove, States
    <2> QED
      BY <2>1, <2>2, <2>3, FurnishedFrame, Zenon
  <1>7. CASE UNCHANGED vars
    <2>1. UNCHANGED <<crs, pc, cur, loc, faults, conts>>
      BY <1>7, Zenon DEF vars, kube, worker
    <2>2. Generations /\ Keeps
      BY <2>1, Zenon DEF Generations, Keeps
    <2> QED
      BY <2>1, <2>2, FurnishedFrame, Zenon
  <1> QED
    BY <1>1, <1>3, <1>4, <1>5, <1>6, <1>7, Zenon

\* As long as nothing fails, no container of the current spec runs without the secret
\* files it mounts, whoever edits, exits or removes what between createAndStartContainer's
\* ContainerCreate, its uploads and its ContainerStart.
THEOREM SecretsComeFirst ==
  ASSUME OwnNames
  PROVE  Spec => []SecretsFirst
  <1>1. Init => Furnished
    <2> SUFFICES ASSUME Init PROVE \A n \in Names : conts[n].by = {}
      BY Zenon DEF Furnished
    <2> QED
      BY Zenon DEF Init, NoContainer
  <1>2. IInv /\ Furnished /\ [Next]_vars => Furnished'
    BY FurnishedSync, FurnishedCreate, FurnishedUpload, FurnishedElse, Zenon
       DEF Next, Step, syncContainer, Done
  <1>3. Furnished => SecretsFirst
    BY Zenon DEF Furnished, SecretsFirst, SecretsPresent
  <1> QED
    BY <1>1, <1>2, <1>3, Invariance, PTL DEF Spec
=============================================================================
