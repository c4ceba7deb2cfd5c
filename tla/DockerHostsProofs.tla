-------------------------- MODULE DockerHostsProofs --------------------------
(***************************************************************************)
(* The cache of Docker clients, for every TTL, all hosts, Secrets and      *)
(* edits: what it hands out is no longer stale once nothing was edited for *)
(* TTL, and it loses no client unless a service has no dockerHostRef.      *)
(*                                                                         *)
(* StaleNoLonger speaks of the time after TTL only.  What is preserved is  *)
(* that every entry is the one that is wanted or is at least as old as the *)
(* last edit (Entries), and that what a call has read so far is what it    *)
(* would read now, unless an edit crossed it (InCall).                     *)
(***************************************************************************)
EXTENDS DockerHosts, FiniteSetTheorems, TLAPS

\* The DockerHost that r means now, and the certificates its client needs.
Chosen(r) ==
    IF Present(hosts["app"][HostName(r)].config)
    THEN hosts["app"][HostName(r)].config
    ELSE hosts["system"][HostName(r)].config
Needs(c) == IF c.tls = "yes" THEN secret["app"] ELSE "none"

Vacant == \A r \in Refs : cache[r].url = "none" => cache[r] = NoEntry

\* Tick leaves a call alone, so quiet = 0 says that an edit crossed it.
InCall ==
    /\ pc # "idle" => cache[HostName(ref)] = NoEntry
    /\ pc # "store" => cert = "none"
    /\ pc = "getSystem" => quiet = 0 \/ ~Present(hosts["app"][HostName(ref)].config)
    /\ pc \in {"getSecret", "store"} => got.url # "none" /\ (quiet = 0 \/ got = Chosen(ref))
    /\ pc = "getSecret" => got.tls = "yes"
    /\ pc = "store" => quiet = 0 \/ cert = Needs(got)

Entries ==
    \A n \in Names :
        \/ cache[n].url = "none"
        \/ cache[n].url = Chosen(n).url /\ cache[n].cert = Needs(Chosen(n))
        \/ quiet <= cache[n].age

One(e) == IF e.url = "none" THEN 0 ELSE 1
Held == One(cache["named"]) + One(cache["default"])

Counted == Held <= open /\ (cache["omitted"] = NoEntry => open = Held)

IInv == TypeOK /\ Vacant /\ InCall /\ Entries /\ Counted

-----------------------------------------------------------------------------
(* Operators. *)

LEMMA Bounds == /\ TTL \in Nat \ {0} /\ MaxOpen \in Nat /\ MaxOpen >= 2
                /\ 0 \in 0..TTL /\ 0 \in 0..MaxOpen
  BY TTLAssumption, BoundsAssumption

LEMMA NameOf == \A r \in Refs : HostName(r) \in Names /\ HostName(r) \in Refs
                                /\ HostName(HostName(r)) = HostName(r)
  BY DEF Refs, Names, HostName

LEMMA AbsentType == Absent \in Config /\ Absent.url = "none" /\ NoCopy \in Host
  BY DEF Absent, Config, NoCopy, Host, Reports

LEMMA NoEntryType == /\ NoEntry \in Entry /\ NoEntry.url = "none" /\ NoEntry.cert = "none"
                     /\ NoEntry.age = 0
  BY Bounds DEF NoEntry, Entry

LEMMA ChosenType ==
  ASSUME TypeOK, NEW r \in Refs
  PROVE  /\ Chosen(r) \in Config /\ Chosen(HostName(r)) = Chosen(r)
         /\ hosts["app"][HostName(r)].config \in Config
         /\ hosts["system"][HostName(r)].config \in Config
  <1>1. HostName(r) \in Names /\ HostName(HostName(r)) = HostName(r)
    BY NameOf
  <1>2. \A ns \in Namespaces : hosts[ns][HostName(r)] \in Host
    BY <1>1 DEF TypeOK
  <1>3. /\ hosts["app"][HostName(r)].config \in Config
        /\ hosts["system"][HostName(r)].config \in Config
    BY <1>2 DEF Namespaces, Host
  <1> QED
    BY <1>1, <1>3 DEF Chosen

\* Wanted, by its parts.
LEMMA WantedIs ==
  ASSUME NEW r \in Refs
  PROVE  Wanted(r) = [url |-> Chosen(r).url, cert |-> Needs(Chosen(r))]
  BY DEF Wanted, Chosen, Needs

\* What decides the choice is the same, or an edit has just been made: then what
\* was read and what is cached may differ from it.
LEMMA ClusterFrame ==
  ASSUME IInv, TypeOK', UNCHANGED resolver,
         \/ quiet' = 0
         \/ /\ UNCHANGED <<quiet, secret>>
            /\ \A ns \in Namespaces, n \in Names : hosts'[ns][n].config = hosts[ns][n].config
  PROVE  IInv'
  <1>0. UNCHANGED <<cache, open, pc, ref, got, cert>>
    BY DEF resolver
  <1>1. Vacant' /\ Counted'
    BY <1>0 DEF IInv, Vacant, Counted, Held
  <1>2. CASE quiet' = 0
    <2>1. InCall'
      BY <1>0, <1>2 DEF IInv, InCall
    <2>2. \A n \in Names : cache[n].age \in 0..TTL
      BY DEF IInv, TypeOK, Entry, Refs
    <2>3. Entries'
      BY <1>0, <1>2, <2>2, Bounds DEF Entries
    <2> QED
      BY <1>1, <2>1, <2>3 DEF IInv
  <1>3. CASE /\ UNCHANGED <<quiet, secret>>
             /\ \A ns \in Namespaces, n \in Names : hosts'[ns][n].config = hosts[ns][n].config
    <2>1. \A r \in Refs : /\ hosts'["app"][HostName(r)].config = hosts["app"][HostName(r)].config
                          /\ Chosen(r)' = Chosen(r)
      BY <1>3, NameOf DEF Chosen, Namespaces
    <2>2. \A c : Needs(c)' = Needs(c)
      BY <1>3 DEF Needs
    <2>3. ref \in Refs /\ Names \subseteq Refs
      BY DEF IInv, TypeOK, Refs
    <2> HIDE DEF Chosen, Needs
    <2>4. InCall'
      <3>1. Chosen(ref)' = Chosen(ref) /\ Needs(got)' = Needs(got)
        BY <1>0, <2>1, <2>2, <2>3
      <3> QED
        BY <1>0, <1>3, <2>1, <2>3, <3>1 DEF IInv, InCall
    <2>5. Entries'
      <3>1. \A n \in Names : Chosen(n)' = Chosen(n) /\ Needs(Chosen(n))' = Needs(Chosen(n))
        BY <2>1, <2>2, <2>3
      <3> QED
        BY <1>0, <1>3, <3>1 DEF IInv, Entries
    <2> QED
      BY <1>1, <2>4, <2>5 DEF IInv
  <1> QED
    BY <1>2, <1>3

-----------------------------------------------------------------------------
(* A call of getDockerClient. *)

\* What the calls leave alone.
LEMMA CallFrame ==
  ASSUME UNCHANGED <<kind, cluster, pinger, quiet, edits>>, TypeOK,
         cache' \in [Refs -> Entry], open' \in 0..MaxOpen,
         pc' \in {"idle", "getHost", "getSystem", "getSecret", "store"},
         ref' \in Refs, got' \in Config, cert' \in Certs \cup {"none"}
  PROVE  /\ TypeOK' /\ UNCHANGED <<hosts, secret, quiet>>
         /\ \A r : Chosen(r)' = Chosen(r)
         /\ \A c : Needs(c)' = Needs(c)
  BY DEF TypeOK, cluster, pinger, Chosen, Needs

\* A call that ends without storing a client leaves the cache right.
LEMMA ReturnStep ==
  ASSUME IInv, Return, UNCHANGED <<cache, open>>, UNCHANGED <<kind, cluster, pinger, quiet, edits>>
  PROVE  IInv'
  <1>1. /\ pc' = "idle" /\ ref' = "omitted" /\ got' = Absent /\ cert' = "none"
        /\ UNCHANGED <<cache, open>> /\ "omitted" \in Refs
    BY DEF Return, Refs
  <1>2. /\ TypeOK' /\ UNCHANGED <<hosts, secret, quiet>>
        /\ \A r : Chosen(r)' = Chosen(r)
        /\ \A c : Needs(c)' = Needs(c)
    BY <1>1, AbsentType, CallFrame DEF IInv, TypeOK
  <1>3. Vacant' /\ Counted'
    BY <1>1 DEF IInv, Vacant, Counted, Held
  <1>4. InCall'
    BY <1>1 DEF InCall
  <1>5. Entries'
    BY <1>1, <1>2 DEF IInv, Entries
  <1> QED
    BY <1>2, <1>3, <1>4, <1>5 DEF IInv

LEMMA LoadStep == ASSUME NEW r \in Refs, IInv, Load(r) PROVE IInv'
  <1> DEFINE n == HostName(r)
  <1>1. n \in Names /\ n \in Refs
    BY NameOf
  <1>2. CASE Fresh(cache[n]) /\ UNCHANGED resolver
    <2>1. TypeOK' /\ UNCHANGED <<quiet, secret, hosts>>
      BY <1>2 DEF Load, resolver, cluster, pinger, IInv, TypeOK
    <2> QED
      BY <1>2, <2>1, ClusterFrame
  <1>3. CASE /\ cache' = [cache EXCEPT ![n] = NoEntry]
             /\ open' = IF cache[n].url = "none" THEN open ELSE open - 1
             /\ pc' = "getHost" /\ ref' = r /\ UNCHANGED <<got, cert>>
    <2>0. /\ pc = "idle" /\ UNCHANGED <<kind, cluster, pinger, quiet, edits>>
          /\ cache \in [Refs -> Entry] /\ open \in 0..MaxOpen
      BY DEF Load, IInv, TypeOK
    <2>1. cache' \in [Refs -> Entry] /\ cache'[n] = NoEntry
          /\ \A m \in Refs : m # n => cache'[m] = cache[m]
      BY <1>1, <1>3, <2>0, NoEntryType
    <2>2. /\ One(NoEntry) = 0 /\ \A e : One(e) \in {0, 1} /\ (One(e) = 0 <=> e.url = "none")
      BY NoEntryType DEF One
    <2>3. Names = {"named", "default"} /\ n # "omitted" /\ Refs = {"named", "default", "omitted"}
      BY <1>1 DEF Names, Refs
    <2>4. Counted' /\ open' \in 0..MaxOpen
      <3>1. CASE n = "named"
        BY <1>3, <2>0, <2>1, <2>2, <2>3, <3>1, Bounds DEF IInv, Counted, Held
      <3>2. CASE n = "default"
        BY <1>3, <2>0, <2>1, <2>2, <2>3, <3>2, Bounds DEF IInv, Counted, Held
      <3> QED
        BY <1>1, <2>3, <3>1, <3>2
    <2>5. /\ TypeOK' /\ UNCHANGED <<hosts, secret, quiet>>
          /\ \A x : Chosen(x)' = Chosen(x)
          /\ \A c : Needs(c)' = Needs(c)
      BY <1>3, <2>0, <2>1, <2>4, CallFrame DEF IInv, TypeOK
    <2>6. Vacant'
      BY <2>1, NoEntryType DEF IInv, Vacant
    <2>7. InCall'
      BY <1>3, <2>0, <2>1 DEF IInv, InCall
    <2>8. Entries'
      BY <2>1, <2>3, <2>5, NoEntryType DEF IInv, Entries
    <2> QED
      BY <2>4, <2>5, <2>6, <2>7, <2>8 DEF IInv
  <1> QED
    BY <1>2, <1>3 DEF Load

\* A call that goes on to the Secret or to the store with what it has chosen.
LEMMA ChosenStep ==
  ASSUME IInv, NEW c \in Config, Present(c), quiet = 0 \/ c = Chosen(ref),
         pc # "idle", pc # "store", pc' = AfterHost(c), got' = c,
         UNCHANGED <<cache, open, ref, cert>>, UNCHANGED <<kind, cluster, pinger, quiet, edits>>
  PROVE  IInv'
  <1>1. pc' \in {"getSecret", "store"} /\ (pc' = "getSecret" <=> c.tls = "yes")
    BY DEF AfterHost
  <1>2. /\ TypeOK' /\ UNCHANGED <<hosts, secret, quiet>>
        /\ \A x : Chosen(x)' = Chosen(x)
        /\ \A x : Needs(x)' = Needs(x)
    BY <1>1, CallFrame DEF IInv, TypeOK
  <1>3. Vacant' /\ Counted'
    BY DEF IInv, Vacant, Counted, Held
  <1>4. InCall'
    <2>1. cert = "none" /\ cache[HostName(ref)] = NoEntry
      BY DEF IInv, InCall
    <2>2. pc' = "store" => cert' = Needs(c)
      BY <1>1, <2>1 DEF Needs
    <2>3. Chosen(ref)' = Chosen(ref) /\ Needs(got)' = Needs(c)
      BY <1>2
    <2> QED
      BY <1>1, <1>2, <2>1, <2>2, <2>3 DEF InCall, Present
  <1>5. Entries'
    BY <1>2 DEF IInv, Entries
  <1> QED
    BY <1>2, <1>3, <1>4, <1>5 DEF IInv

LEMMA GetStep == IInv /\ (GetHost \/ GetSystem \/ GetSecret) => IInv'
  <1> SUFFICES ASSUME IInv, GetHost \/ GetSystem \/ GetSecret PROVE IInv'
    OBVIOUS
  <1> DEFINE a == hosts["app"][HostName(ref)].config
             b == hosts["system"][HostName(ref)].config
  <1>0. /\ ref \in Refs /\ a \in Config /\ b \in Config /\ got \in Config
        /\ UNCHANGED <<cache, open>> /\ UNCHANGED <<kind, cluster, pinger, quiet, edits>>
    BY ChosenType DEF IInv, TypeOK, GetHost, GetSystem, GetSecret
  <1>1. CASE GetHost /\ Present(a) /\ pc' = AfterHost(a) /\ got' = a
    BY <1>0, <1>1, ChosenStep DEF GetHost, Chosen
  <1>2. CASE GetHost /\ ~Present(a) /\ pc' = "getSystem" /\ UNCHANGED got
    <2>0. pc = "getHost" /\ UNCHANGED <<ref, cert>>
      BY <1>2 DEF GetHost
    <2>1. /\ TypeOK' /\ UNCHANGED <<hosts, secret, quiet>>
          /\ \A x : Chosen(x)' = Chosen(x)
          /\ \A x : Needs(x)' = Needs(x)
      BY <1>0, <1>2, <2>0, CallFrame DEF IInv, TypeOK
    <2>2. Vacant' /\ Counted'
      BY <1>0 DEF IInv, Vacant, Counted, Held
    <2>3. InCall'
      BY <1>0, <1>2, <2>0, <2>1 DEF IInv, InCall
    <2>4. Entries'
      BY <1>0, <2>1 DEF IInv, Entries
    <2> QED
      BY <2>1, <2>2, <2>3, <2>4 DEF IInv
  <1>3. CASE GetSystem /\ Present(b) /\ pc' = AfterHost(b) /\ got' = b /\ UNCHANGED <<ref, cert>>
    <2>1. quiet = 0 \/ b = Chosen(ref)
      BY <1>3 DEF IInv, InCall, GetSystem, Chosen
    <2> QED
      BY <1>0, <1>3, <2>1, ChosenStep DEF GetSystem
  <1>4. CASE Return
    BY <1>0, <1>4, ReturnStep
  <1>5. CASE /\ GetSecret /\ secret["app"] \in Certs /\ pc' = "store"
             /\ cert' = secret["app"] /\ UNCHANGED <<ref, got>>
    <2>1. /\ TypeOK' /\ UNCHANGED <<hosts, secret, quiet>>
          /\ \A x : Chosen(x)' = Chosen(x)
          /\ \A x : Needs(x)' = Needs(x)
      BY <1>0, <1>5, CallFrame DEF IInv, TypeOK
    <2>2. Vacant' /\ Counted'
      BY <1>0 DEF IInv, Vacant, Counted, Held
    <2>3. InCall'
      <3>1. pc = "getSecret" /\ got.tls = "yes"
        BY <1>5 DEF GetSecret, IInv, InCall
      <3>2. cert' = Needs(got) /\ Needs(got)' = Needs(got) /\ Chosen(ref)' = Chosen(ref)
        BY <1>5, <2>1, <3>1 DEF Needs
      <3> QED
        BY <1>0, <1>5, <2>1, <3>1, <3>2 DEF IInv, InCall
    <2>4. Entries'
      BY <1>0, <2>1 DEF IInv, Entries
    <2> QED
      BY <2>1, <2>2, <2>3, <2>4 DEF IInv
  <1> QED
    BY <1>1, <1>2, <1>3, <1>4, <1>5 DEF GetHost, GetSystem, GetSecret, SecretNamespace
LEMMA StoreStep == IInv /\ StoreClient => IInv'
  <1> SUFFICES ASSUME IInv, StoreClient PROVE IInv'
    OBVIOUS
  <1> DEFINE k == StoreKey(ref)
             e == [url |-> got.url, cert |-> cert, age |-> 0]
  <1>0. /\ pc = "store" /\ Return /\ UNCHANGED <<kind, cluster, pinger, quiet, edits>>
        /\ ref \in Refs /\ got \in Config /\ cert \in Certs \cup {"none"}
        /\ cache \in [Refs -> Entry] /\ open \in 0..MaxOpen /\ quiet \in 0..TTL
    BY DEF StoreClient, IInv, TypeOK
  <1>1. CASE UNCHANGED <<cache, open>>
    BY <1>0, <1>1, ReturnStep
  <1>2. CASE /\ cache' = [cache EXCEPT ![k] = e]
             /\ open' = IF open < MaxOpen THEN open + 1 ELSE open
    <2>1. /\ pc' = "idle" /\ ref' = "omitted" /\ got' = Absent /\ cert' = "none"
          /\ "omitted" \in Refs
      BY <1>0 DEF Return, Refs
    <2>2. /\ got.url # "none" /\ cache[HostName(ref)] = NoEntry
          /\ quiet = 0 \/ (got = Chosen(ref) /\ cert = Needs(got))
      BY <1>0 DEF IInv, InCall
    <2>3. /\ e \in Entry /\ e.url = got.url /\ e.cert = cert /\ e.age = 0
      BY <1>0, Bounds DEF Entry, Config
    <2>4. /\ k \in Refs /\ (k = HostName(ref) \/ k = "omitted")
      BY <1>0, NameOf DEF StoreKey, HostName
    <2> HIDE DEF k, e
    <2>5. /\ cache' \in [Refs -> Entry] /\ cache'[k] = e
          /\ \A m \in Refs : m # k => cache'[m] = cache[m]
      BY <1>0, <1>2, <2>3, <2>4
    <2>6. open' \in 0..MaxOpen
      BY <1>0, <1>2, Bounds
    <2>7. /\ TypeOK' /\ UNCHANGED <<hosts, secret, quiet>>
          /\ \A x : Chosen(x)' = Chosen(x)
          /\ \A x : Needs(x)' = Needs(x)
      BY <1>0, <2>1, <2>5, <2>6, AbsentType, CallFrame DEF IInv
    <2>8. Vacant'
      BY <2>2, <2>3, <2>5 DEF IInv, Vacant
    <2>9. InCall'
      BY <2>1 DEF InCall
    <2>10. Entries'
      <3> SUFFICES ASSUME NEW n \in Names
                   PROVE  \/ cache'[n].url = "none"
                          \/ cache'[n].url = Chosen(n).url /\ cache'[n].cert = Needs(Chosen(n))
                          \/ quiet <= cache'[n].age
        BY <2>7 DEF Entries
      <3>1. CASE n = k
        <4>1. n = HostName(ref)
          BY <2>4, <3>1 DEF Names
        <4>2. Chosen(n) = Chosen(ref)
          BY <1>0, <4>1, ChosenType DEF IInv
        <4> QED
          BY <1>0, <2>2, <2>3, <2>5, <3>1, <4>2
      <3>2. CASE n # k
        BY <2>5, <3>2 DEF IInv, Entries, Refs
      <3> QED
        BY <3>1, <3>2
    <2>11. Counted'
      <3>1. /\ One(NoEntry) = 0 /\ One(e) = 1
            /\ \A x : One(x) \in {0, 1}
        BY <2>2, <2>3, NoEntryType DEF One
      <3>2. {"named", "default", "omitted"} = Refs /\ HostName(ref) \in {"named", "default"}
        BY <1>0, NameOf DEF Refs, Names
      <3>3. e # NoEntry
        BY <2>2, <2>3, NoEntryType
      <3>4. CASE k = "omitted"
        <4>1. Held' = Held /\ Held <= open /\ Held \in Nat
          BY <2>5, <3>1, <3>2, <3>4 DEF Held, IInv, Counted
        <4> QED
          BY <1>0, <1>2, <2>5, <3>3, <3>4, <4>1, Bounds DEF Counted
      <3>5. CASE k # "omitted"
        <4>1. Held' = Held + 1 /\ Held \in {0, 1} /\ cache'["omitted"] = cache["omitted"]
          <5>1. CASE k = "named"
            BY <2>2, <2>4, <2>5, <3>1, <3>2, <5>1 DEF Held
          <5>2. CASE k = "default"
            BY <2>2, <2>4, <2>5, <3>1, <3>2, <5>2 DEF Held
          <5> QED
            BY <2>4, <3>2, <3>5, <5>1, <5>2
        <4> QED
          BY <1>0, <1>2, <4>1, Bounds DEF IInv, Counted
      <3> QED
        BY <3>4, <3>5
    <2> QED
      BY <2>7, <2>8, <2>9, <2>10, <2>11 DEF IInv
  <1> QED
    BY <1>1, <1>2 DEF StoreClient

-----------------------------------------------------------------------------
(* The DockerHost controller and the environment. *)

LEMMA PingerStep == IInv /\ ReconcileHost => IInv'
  <1> SUFFICES ASSUME IInv, ReconcileHost PROVE IInv'
    OBVIOUS
  <1>0. /\ hosts \in [Namespaces -> [Names -> Host]] /\ hns \in Namespaces /\ hname \in Names
        /\ copy \in Host /\ outcome \in Reports /\ edits \in Nat
        /\ "app" \in Namespaces /\ "default" \in Names /\ "none" \in Reports
    BY DEF IInv, TypeOK, Namespaces, Names, Reports
  <1>1. ASSUME NEW ns \in Namespaces, NEW n \in Names, Fetch(ns, n) PROVE IInv'
    <2>1. hpc' \in {"getSecret", "ping"} /\ copy' \in Host
      BY <1>0, <1>1 DEF Fetch
    <2>2. /\ UNCHANGED <<kind, hosts, secret, engine, resolver, quiet, edits, crossed, outcome>>
          /\ hns' = ns /\ hname' = n
      BY <1>1 DEF Fetch, cluster
    <2>3. TypeOK'
      BY <1>1, <2>1, <2>2 DEF IInv, TypeOK, resolver
    <2> QED
      BY <2>2, <2>3, ClusterFrame
  <1>2. CASE ReadSecret \/ Ping
    <2>1. hpc' \in {"ping", "write"} /\ outcome' \in Reports
      BY <1>0, <1>2 DEF ReadSecret, Ping, Answer, Reports
    <2>2. UNCHANGED <<kind, hosts, secret, engine, resolver, quiet, edits, hns, hname, copy, crossed>>
      BY <1>2 DEF ReadSecret, Ping, cluster
    <2>3. TypeOK'
      BY <2>1, <2>2 DEF IInv, TypeOK, resolver
    <2> QED
      BY <2>2, <2>3, ClusterFrame
  <1>3. CASE WriteStatus
    <2>1. UNCHANGED <<kind, secret, engine, resolver, quiet>> /\ Done /\ edits' \in Nat
      BY <1>0, <1>3 DEF WriteStatus, Trouble
    <2>2. /\ hosts' \in [Namespaces -> [Names -> Host]]
          /\ \A ns \in Namespaces, n \in Names : hosts'[ns][n].config = hosts[ns][n].config
      <3>1. CASE hosts' = [hosts EXCEPT ![hns][hname].report = outcome]
        <4>1. hosts[hns] \in [Names -> Host] /\ hosts[hns][hname] \in Host
          BY <1>0
        <4> DEFINE h == [hosts[hns][hname] EXCEPT !.report = outcome]
        <4>2. h \in Host /\ h.config = hosts[hns][hname].config
          BY <1>0, <4>1 DEF Host
        <4>3. hosts' = [hosts EXCEPT ![hns] = [hosts[hns] EXCEPT ![hname] = h]]
          BY <3>1
        <4> HIDE DEF h
        <4> QED
          BY <1>0, <4>1, <4>2, <4>3
      <3> QED
        BY <1>0, <1>3, <3>1 DEF WriteStatus
    <2>3. TypeOK'
      BY <1>0, <2>1, <2>2, AbsentType DEF IInv, TypeOK, resolver, Done
    <2> QED
      BY <2>1, <2>2, <2>3, ClusterFrame
  <1> QED
    BY <1>1, <1>2, <1>3 DEF ReconcileHost

\* Time passes for the entries as it does since the last edit.
LEMMA TickStep == IInv /\ Tick => IInv'
  <1> SUFFICES ASSUME IInv, Tick PROVE IInv'
    OBVIOUS
  <1>0. /\ pc = "idle" /\ quiet' = Older(quiet) /\ quiet \in 0..TTL
        /\ cache' = [r \in Refs |-> IF cache[r].url = "none" THEN NoEntry
                                    ELSE [cache[r] EXCEPT !.age = Older(@)]]
        /\ UNCHANGED <<kind, cluster, open, pc, ref, got, cert, pinger, edits>>
        /\ UNCHANGED <<hosts, secret, engine>> /\ cache \in [Refs -> Entry]
    BY DEF Tick, IInv, TypeOK, cluster
  <1>1. \A x \in 0..TTL : Older(x) \in 0..TTL /\ \A y \in 0..TTL : x <= y => Older(x) <= Older(y)
    BY Bounds DEF Older
  <1>2. \A r \in Refs : /\ cache'[r] \in Entry
                        /\ cache'[r].url = cache[r].url
                        /\ cache[r] = NoEntry <=> cache'[r] = NoEntry
                        /\ cache[r].url # "none" => /\ cache'[r].cert = cache[r].cert
                                                    /\ cache'[r].age = Older(cache[r].age)
    <2> SUFFICES ASSUME NEW r \in Refs
                 PROVE  /\ cache'[r] \in Entry
                        /\ cache'[r].url = cache[r].url
                        /\ cache[r] = NoEntry <=> cache'[r] = NoEntry
                        /\ cache[r].url # "none" => /\ cache'[r].cert = cache[r].cert
                                                    /\ cache'[r].age = Older(cache[r].age)
      OBVIOUS
    <2>1. cache[r] \in Entry /\ Older(cache[r].age) \in 0..TTL
      BY <1>0, <1>1 DEF Entry
    <2>2. CASE cache[r].url = "none"
      BY <1>0, <2>2, NoEntryType DEF IInv, Vacant
    <2>3. CASE cache[r].url # "none"
      <3>1. cache'[r] = [cache[r] EXCEPT !.age = Older(@)]
        BY <1>0, <2>3
      <3>2. /\ cache'[r] \in Entry /\ cache'[r].url = cache[r].url
            /\ cache'[r].cert = cache[r].cert /\ cache'[r].age = Older(cache[r].age)
        BY <2>1, <3>1 DEF Entry
      <3> QED
        BY <2>3, <3>2, NoEntryType
    <2> QED
      BY <2>2, <2>3
  <1>3. TypeOK'
    <2>1. cache' \in [Refs -> Entry]
      BY <1>0, <1>2
    <2> QED
      BY <1>0, <1>1, <2>1 DEF IInv, TypeOK, pinger
  <1>4. Vacant'
    BY <1>2 DEF IInv, Vacant
  <1>5. InCall'
    BY <1>0 DEF IInv, InCall
  <1>6. Entries'
    <2>1. \A n \in Names : Chosen(n)' = Chosen(n) /\ Needs(Chosen(n))' = Needs(Chosen(n))
      BY <1>0 DEF Chosen, Needs
    <2>2. \A n \in Names : n \in Refs /\ cache[n].age \in 0..TTL
      BY <1>0 DEF Refs, Entry
    <2> QED
      BY <1>0, <1>1, <1>2, <2>1, <2>2 DEF IInv, Entries
  <1>7. Counted'
    <2>1. \A r \in Refs : One(cache[r])' = One(cache[r])
      BY <1>2 DEF One
    <2>2. Held' = Held
      BY <2>1 DEF Held, Refs, Names
    <2> QED
      BY <1>0, <1>2, <2>2 DEF IInv, Counted, Refs
  <1> QED
    BY <1>3, <1>4, <1>5, <1>6, <1>7 DEF IInv

LEMMA EnvironmentStep == IInv /\ Environment => IInv'
  <1> SUFFICES ASSUME IInv, Environment PROVE IInv'
    OBVIOUS
  <1>0. /\ hosts \in [Namespaces -> [Names -> Host]] /\ secret \in [Namespaces -> Contents]
        /\ engine \in [Urls -> {"up", "down", "hung"}]
        /\ quiet \in 0..TTL /\ edits \in Nat
        /\ "app" \in Namespaces /\ "default" \in Names /\ "none" \in Reports
        /\ "omitted" \in Refs
    BY DEF IInv, TypeOK, Namespaces, Names, Reports, Refs
  <1>1. ASSUME NEW ns \in Namespaces, NEW n \in Names, NEW c \in Configs \cup {Absent},
               EditHost(ns, n, c)
        PROVE  IInv'
    <2>1. c \in Config
      BY ConfigsAssumption, AbsentType DEF Config
    <2>2. hosts' \in [Namespaces -> [Names -> Host]]
      <3>1. \E x \in Reports : hosts' = [hosts EXCEPT ![ns][n] = [config |-> c, report |-> x]]
        BY <1>0, <1>1 DEF EditHost, Host
      <3> QED
        BY <1>0, <2>1, <3>1 DEF Host
    <2>3. /\ edits' \in Nat /\ quiet' = 0 /\ crossed' \in {"no", "yes"}
          /\ UNCHANGED <<hpc, hns, hname, copy, outcome>>
          /\ UNCHANGED <<kind, secret, engine, resolver>>
      BY <1>0, <1>1 DEF EditHost, Trouble, IInv, TypeOK
    <2>4. TypeOK'
      BY <2>2, <2>3, Bounds DEF IInv, TypeOK, resolver
    <2> QED
      BY <2>3, <2>4, ClusterFrame
  <1>2. ASSUME NEW ns \in Namespaces, NEW s \in Contents, EditSecret(ns, s) PROVE IInv'
    <2>1. /\ secret' \in [Namespaces -> Contents] /\ edits' \in Nat /\ quiet' = 0
          /\ UNCHANGED <<kind, hosts, engine, resolver, pinger>>
      BY <1>0, <1>2 DEF EditSecret, Trouble
    <2>2. TypeOK'
      BY <2>1, Bounds DEF IInv, TypeOK, resolver, pinger
    <2> QED
      BY <2>1, <2>2, ClusterFrame
  <1>3. ASSUME NEW u \in Urls, NEW s \in {"up", "down", "hung"}, ChangeEngine(u, s) PROVE IInv'
    <2>1. /\ engine' \in [Urls -> {"up", "down", "hung"}] /\ edits' \in Nat
          /\ UNCHANGED <<kind, hosts, secret, resolver, pinger, quiet>>
      BY <1>0, <1>3 DEF ChangeEngine, Trouble
    <2>2. TypeOK'
      BY <2>1 DEF IInv, TypeOK, resolver, pinger
    <2> QED
      BY <2>1, <2>2, ClusterFrame
  <1>4. CASE Crash
    <2>1. /\ pc' = "idle" /\ ref' = "omitted" /\ got' = Absent /\ cert' = "none"
          /\ cache' = [r \in Refs |-> NoEntry] /\ open' = 0 /\ edits' \in Nat
          /\ UNCHANGED <<kind, hosts, secret, engine, quiet>> /\ Done
      BY <1>0, <1>4 DEF Crash, Return, Trouble, cluster
    <2>2. TypeOK'
      BY <1>0, <2>1, Bounds, AbsentType, NoEntryType DEF IInv, TypeOK, Done
    <2>3. Vacant' /\ InCall' /\ Entries'
      BY <2>1, NoEntryType DEF Vacant, InCall, Entries, Refs
    <2>4. Counted'
      BY <2>1, NoEntryType DEF Counted, Held, One, Refs, Names
    <2> QED
      BY <2>2, <2>3, <2>4 DEF IInv
  <1> QED
    BY <1>1, <1>2, <1>3, <1>4, TickStep DEF Environment

LEMMA Initially == Init => IInv
  <1> SUFFICES ASSUME Init PROVE IInv
    OBVIOUS
  <1>1. hosts \in [Namespaces -> [Names -> Host]] /\ secret \in [Namespaces -> Contents]
    <2>1. PICK s \in Starts : hosts = [ns \in Namespaces |-> [n \in Names |->
                                         [config |-> s[ns][n], report |-> "none"]]]
      BY DEF Init
    <2>2. \A ns \in Namespaces, n \in Names : s[ns][n] \in Configs \cup {Absent}
      BY <2>1, ConfigsAssumption
    <2>3. \A ns \in Namespaces, n \in Names : s[ns][n] \in Config
      BY <2>2, ConfigsAssumption, AbsentType DEF Config
    <2>4. \A ns \in Namespaces, n \in Names : [config |-> s[ns][n], report |-> "none"] \in Host
      BY <2>3 DEF Host, Reports
    <2>5. hosts \in [Namespaces -> [Names -> Host]]
      BY <2>1, <2>4
    <2>6. secret \in [Namespaces -> Contents]
      BY ConfigsAssumption DEF Init
    <2> QED
      BY <2>5, <2>6
  <1>2. TypeOK
    BY <1>1, Bounds, AbsentType, NoEntryType
    DEF Init, TypeOK, Refs, Names, Namespaces, Reports
  <1>3. Vacant /\ InCall /\ Entries
    BY NoEntryType DEF Init, Vacant, InCall, Entries, Refs
  <1>4. Counted
    BY NoEntryType DEF Init, Counted, Held, One, Refs, Names
  <1> QED
    BY <1>2, <1>3, <1>4 DEF IInv

-----------------------------------------------------------------------------
(* The theorems. *)

LEMMA Invariance == Spec => []IInv
  <1>1. IInv /\ Next => IInv'
    BY LoadStep, GetStep, StoreStep, PingerStep, EnvironmentStep DEF Next, getDockerClient
  <1>2. IInv /\ UNCHANGED vars => IInv'
    <2> SUFFICES ASSUME IInv, UNCHANGED vars PROVE IInv'
      OBVIOUS
    <2>1. UNCHANGED <<resolver, quiet, secret, hosts>>
      BY DEF vars, cluster
    <2>2. TypeOK'
      BY DEF vars, cluster, resolver, pinger, IInv, TypeOK
    <2> QED
      BY <2>1, <2>2, ClusterFrame
  <1> QED
    BY <1>1, <1>2, Initially, PTL DEF Spec

\* Every reachable state of the cache, the calls and the reports is well typed: in
\* particular only reports of the API are written, and open never drops below 0.
THEOREM Typing == Spec => []TypeOK
  <1>1. IInv => TypeOK
    BY DEF IInv
  <1> QED
    BY <1>1, Invariance, PTL

\* Whatever TTL is and whichever edits cross the calls, the cache hands out nothing
\* outdated once nothing was edited for TTL (getDockerClient, reconciler.go:622-632).
THEOREM StalenessBounded == Spec => []StaleNoLonger
  <1>1. IInv => StaleNoLonger
    <2> SUFFICES ASSUME IInv, quiet = TTL, NEW r \in Refs, Fresh(cache[HostName(r)])
                 PROVE  [url |-> cache[HostName(r)].url, cert |-> cache[HostName(r)].cert]
                            = Wanted(r)
      BY DEF StaleNoLonger
    <2>1. HostName(r) \in Names /\ Chosen(HostName(r)) = Chosen(r)
      BY NameOf, ChosenType DEF IInv
    <2>2. cache[HostName(r)].age \in 0..TTL
      BY <2>1, NameOf DEF IInv, TypeOK, Entry
    <2>3. /\ cache[HostName(r)].url = Chosen(r).url
          /\ cache[HostName(r)].cert = Needs(Chosen(r))
      BY <2>1, <2>2, Bounds DEF IInv, Entries, Fresh
    <2> QED
      BY <2>3, WantedIs
  <1> QED
    BY <1>1, Invariance, PTL

\* Unless a service without a dockerHostRef has stored its client where none is looked
\* up, no client is left open that the cache does not hold (reconciler.go:622-700,
\* dockerservice/reconciler.go:668).
THEOREM NoClientLost == Spec => []ClientsClosed
  <1>1. IInv => ClientsClosed
    <2> SUFFICES ASSUME IInv, cache["omitted"] = NoEntry
                 PROVE  open = Cardinality({r \in Refs : cache[r].url # "none"})
      BY DEF ClientsClosed
    <2> DEFINE H == {r \in Refs : cache[r].url # "none"}
    <2>1. open = Held /\ NoEntry.url = "none" /\ Refs = {"named", "default", "omitted"}
      BY NoEntryType DEF IInv, Counted, Refs, Names
    <2>2. open = One(cache["named"]) + One(cache["default"])
      BY <2>1 DEF Held
    <2>3. /\ IsFiniteSet({}) /\ Cardinality({}) = 0
          /\ Cardinality({"named"}) = 1 /\ Cardinality({"default"}) = 1
          /\ IsFiniteSet({"default"})
      BY FS_EmptySet, FS_Singleton, Zenon
    <2>4. Cardinality({"default"} \cup {"named"}) = 2
      <3>1. Cardinality({"default"} \cup {"named"}) =
               IF "named" \in {"default"} THEN Cardinality({"default"})
                                          ELSE Cardinality({"default"}) + 1
        BY <2>3, FS_AddElement, Zenon
      <3> QED
        BY <2>3, <3>1
    <2>5. open = Cardinality(H)
      <3> HIDE DEF H
      <3>1. CASE cache["named"].url = "none" /\ cache["default"].url = "none"
        <4>1. H = {}
          BY <2>1, <3>1 DEF H
        <4> QED
          BY <2>2, <2>3, <3>1, <4>1 DEF One
      <3>2. CASE cache["named"].url # "none" /\ cache["default"].url = "none"
        <4>1. H = {"named"}
          BY <2>1, <3>2 DEF H
        <4> QED
          BY <2>2, <2>3, <3>2, <4>1 DEF One
      <3>3. CASE cache["named"].url = "none" /\ cache["default"].url # "none"
        <4>1. H = {"default"}
          BY <2>1, <3>3 DEF H
        <4> QED
          BY <2>2, <2>3, <3>3, <4>1 DEF One
      <3>4. CASE cache["named"].url # "none" /\ cache["default"].url # "none"
        <4>1. H = {"default"} \cup {"named"}
          BY <2>1, <3>4 DEF H
        <4> QED
          BY <2>2, <2>4, <3>4, <4>1 DEF One
      <3> QED
        BY <3>1, <3>2, <3>3, <3>4
    <2> QED
      BY <2>5
  <1> QED
    BY <1>1, Invariance, PTL
=============================================================================
