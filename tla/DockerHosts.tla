----------------------------- MODULE DockerHosts -----------------------------
(***************************************************************************)
(* DockerHosts: how a reconciler gets from dockerHostRef to a Docker       *)
(* client (getDockerClient of the container, job and service reconcilers)  *)
(* and how the DockerHost controller reports which hosts it can reach      *)
(* (internal/controller/dockerhost/reconciler.go).                         *)
(*                                                                         *)
(* getDockerClient looks for a DockerHost in the namespace of the resource *)
(* that asks ("app") and then in "system", reads the TLS Secret, and keeps *)
(* the client it builds in a cache for TTL.  The DockerHost controller     *)
(* pings every host and writes the outcome to its status.  Both run while  *)
(* users edit hosts and Secrets, and while engines go down, hang and come  *)
(* back.                                                                   *)
(*                                                                         *)
(* The workers share nothing but these objects, and what the DockerHost    *)
(* controller writes, the status, no other one reads.  So one worker at a  *)
(* time is looked at, of any of the controllers.                           *)
(*                                                                         *)
(* Time is counted in ticks, as the age of what is cached.                 *)
(* getDockerClient reads only informer caches, so a call, and the delay of *)
(* the caches, is short compared with a tick.                              *)
(***************************************************************************)
EXTENDS Integers, FiniteSets

CONSTANTS Urls,     \* values of hostURL
          BadUrls,  \* those that NewClientWithOpts does not accept
          Configs,  \* specs of a DockerHost
          Certs,    \* contents of a TLS Secret that GetTLSConfig accepts
          Starts,   \* the DockerHosts there may be at first
          Secrets,  \* the contents a Secret may have at first
          TTL,      \* how long a client is kept: 5 minutes
          MaxOpen,  \* bound: open clients are counted up to this
          MaxEdits  \* bound: edits, changes of an engine, failed writes, crashes

ASSUME UrlsAssumption == BadUrls \subseteq Urls /\ "none" \notin Urls /\ "local" \notin Urls
ASSUME CertsAssumption == "none" \notin Certs /\ "bad" \notin Certs
ASSUME TTLAssumption == TTL \in Nat \ {0}
\* The count of open clients goes at least as far as there are names to look up.
ASSUME BoundsAssumption == MaxOpen \in Nat \ {0, 1} /\ MaxEdits \in Nat

VARIABLES
    kind,     \* whose worker: a container's (a job's is the same), a service's, a host's
    hosts,    \* the DockerHosts, by namespace and name
    secret,   \* the TLS Secret of each namespace
    engine,   \* what answers at each URL
    cache,    \* dockerClients, by the dockerHostRef in the key
    open,     \* how many clients of DockerHosts are open
    pc, ref, got, cert,       \* a call of getDockerClient, and what it has read
    hpc, hns, hname, copy, crossed, outcome,   \* a reconcile of the DockerHost controller
    quiet,                    \* time since the last edit, counted up to TTL
    edits

resolver == <<cache, open, pc, ref, got, cert>>
pinger == <<hpc, hns, hname, copy, crossed, outcome>>
cluster == <<hosts, secret, engine>>
vars == <<kind, cluster, resolver, pinger, quiet, edits>>

Kinds == {"container", "service", "host"}
Namespaces == {"app", "system"}
Names == {"named", "default"}
Refs == Names \cup {"omitted"}   \* "omitted": no dockerHostRef
Absent == [url |-> "none", tls |-> "no"]
Config == [url : Urls \cup {"none"}, tls : {"no", "yes"}]
Reports == {"none", "connected", "noSecret", "badSecret", "unreachable"}   \* phase and message
Host == [config : Config, report : Reports]
Contents == Certs \cup {"none", "bad"}
Entry == [url : Urls \cup {"none"}, cert : Certs \cup {"none"}, age : 0..TTL]   \* url "none": no entry

ASSUME ConfigsAssumption ==
    /\ Configs \subseteq [url : Urls, tls : {"no", "yes"}]
    /\ Starts \subseteq [Namespaces -> [Names -> Configs \cup {Absent}]]
    /\ Secrets \subseteq Contents

NoEntry == [url |-> "none", cert |-> "none", age |-> 0]
NoCopy == [config |-> Absent, report |-> "none"]

TypeOK ==
    /\ kind \in Kinds
    /\ hosts \in [Namespaces -> [Names -> Host]] /\ secret \in [Namespaces -> Contents]
    /\ engine \in [Urls -> {"up", "down", "hung"}]
    /\ cache \in [Refs -> Entry] /\ open \in 0..MaxOpen
    /\ pc \in {"idle", "getHost", "getSystem", "getSecret", "store"}
    /\ ref \in Refs /\ got \in Config /\ cert \in Certs \cup {"none"}
    /\ hpc \in {"idle", "getSecret", "ping", "write"}
    /\ hns \in Namespaces /\ hname \in Names /\ copy \in Host
    /\ crossed \in {"no", "yes"} /\ outcome \in Reports
    /\ quiet \in 0..TTL /\ edits \in Nat

Init ==
    /\ kind \in Kinds
    /\ \E s \in Starts : hosts = [ns \in Namespaces |-> [n \in Names |->
                                    [config |-> s[ns][n], report |-> "none"]]]
    /\ secret \in [Namespaces -> Secrets]
    /\ engine = [u \in Urls |-> "up"]
    /\ cache = [r \in Refs |-> NoEntry] /\ open = 0
    /\ pc = "idle" /\ ref = "omitted" /\ got = Absent /\ cert = "none"
    /\ hpc = "idle" /\ hns = "app" /\ hname = "default" /\ copy = NoCopy
    /\ crossed = "no" /\ outcome = "none"
    /\ quiet = TTL /\ edits = 0

Present(c) == c.url # "none"

-----------------------------------------------------------------------------
(* getDockerClient. *)

HostName(r) == IF r = "omitted" THEN "default" ELSE r

\* The key an entry is stored under.  The service reconciler takes the
\* dockerHostRef as it is, also when it is empty, and looks under HostName.
StoreKey(r) == IF kind = "service" THEN r ELSE HostName(r)

\* Mutant: entries do not expire.
NeverExpires(e) == e.url # "none"

Fresh(e) == e.url # "none" /\ e.age < TTL

\* The end of a call, with a client or an error.
Return == pc' = "idle" /\ ref' = "omitted" /\ got' = Absent /\ cert' = "none"

\* Mutant: an expired client is dropped without Close.
LoadNotClosing(r) ==
    /\ pc = "idle" /\ kind # "host" /\ ~Fresh(cache[HostName(r)])
    /\ cache' = [cache EXCEPT ![HostName(r)] = NoEntry]
    /\ pc' = "getHost" /\ ref' = r /\ UNCHANGED <<open, got, cert>>
    /\ UNCHANGED <<kind, cluster, pinger, quiet, edits>>

\* The cache is looked up; an expired client is closed and its entry deleted.
Load(r) ==
    /\ pc = "idle" /\ kind # "host"
    /\ LET e == cache[HostName(r)] IN
       \/ Fresh(e) /\ UNCHANGED resolver
       \/ /\ ~Fresh(e)
          /\ cache' = [cache EXCEPT ![HostName(r)] = NoEntry]
          /\ open' = IF e.url = "none" THEN open ELSE open - 1
          /\ pc' = "getHost" /\ ref' = r /\ UNCHANGED <<got, cert>>
    /\ UNCHANGED <<kind, cluster, pinger, quiet, edits>>

AfterHost(c) == IF c.tls = "yes" THEN "getSecret" ELSE "store"

GetHost ==
    /\ pc = "getHost"
    /\ LET c == hosts["app"][HostName(ref)].config IN
       \/ Present(c) /\ pc' = AfterHost(c) /\ got' = c
       \/ ~Present(c) /\ pc' = "getSystem" /\ UNCHANGED got
    /\ UNCHANGED <<cache, open, ref, cert>>
    /\ UNCHANGED <<kind, cluster, pinger, quiet, edits>>

\* Without a DockerHost, "default" is the local socket: a client that is neither
\* cached nor closed (nor counted).  Any other name is an error.
GetSystem ==
    /\ pc = "getSystem" /\ UNCHANGED <<cache, open>>
    /\ LET c == hosts["system"][HostName(ref)].config IN
       \/ Present(c) /\ pc' = AfterHost(c) /\ got' = c /\ UNCHANGED <<ref, cert>>
       \/ ~Present(c) /\ Return
    /\ UNCHANGED <<kind, cluster, pinger, quiet, edits>>

\* The Secret is read in the namespace of the resource, also for a host of "system".
SecretNamespace == "app"

GetSecret ==
    /\ pc = "getSecret" /\ UNCHANGED <<cache, open>>
    /\ LET s == secret[SecretNamespace] IN
       \/ s \in Certs /\ pc' = "store" /\ cert' = s /\ UNCHANGED <<ref, got>>
       \/ s \notin Certs /\ Return
    /\ UNCHANGED <<kind, cluster, pinger, quiet, edits>>

\* NewClientWithOpts, and the new entry.  A client that it overwrites stays open.
StoreClient ==
    /\ pc = "store" /\ Return
    /\ LET k == StoreKey(ref) IN
       \/ got.url \in BadUrls /\ UNCHANGED <<cache, open>>
       \/ /\ got.url \notin BadUrls
          /\ cache' = [cache EXCEPT ![k] = [url |-> got.url, cert |-> cert, age |-> 0]]
          /\ open' = IF open < MaxOpen THEN open + 1 ELSE open
    /\ UNCHANGED <<kind, cluster, pinger, quiet, edits>>

getDockerClient ==
    (\E r \in Refs : Load(r)) \/ GetHost \/ GetSystem \/ GetSecret \/ StoreClient

-----------------------------------------------------------------------------
(* The DockerHost controller: one worker for all hosts. *)

Trouble == edits < MaxEdits /\ edits' = edits + 1

Fetch(ns, n) ==
    /\ hpc = "idle" /\ kind = "host" /\ Present(hosts[ns][n].config)
    /\ copy' = hosts[ns][n] /\ hns' = ns /\ hname' = n /\ UNCHANGED <<crossed, outcome>>
    /\ hpc' = IF copy'.config.tls = "yes" THEN "getSecret" ELSE "ping"
    /\ UNCHANGED <<kind, cluster, resolver, quiet, edits>>

ReadSecret ==
    /\ hpc = "getSecret"
    /\ LET s == secret[hns] IN
       \/ s \in Certs /\ hpc' = "ping" /\ UNCHANGED outcome
       \/ /\ s \notin Certs /\ hpc' = "write"
          /\ outcome' = IF s = "none" THEN "noSecret" ELSE "badSecret"
    /\ UNCHANGED <<hns, hname, copy, crossed>>
    /\ UNCHANGED <<kind, cluster, resolver, quiet, edits>>

\* The client of a host with TLS has a timeout of 5 seconds.  The other one has
\* none: Ping does not return while its engine hangs.
Hangs(c) == c.url \notin BadUrls /\ c.tls = "no" /\ engine[c.url] = "hung"

\* Mutant: a report the API does not have.
Verdict(c) == IF c.url \notin BadUrls /\ engine[c.url] = "up" THEN "up" ELSE "unreachable"

Answer(c) == IF c.url \notin BadUrls /\ engine[c.url] = "up" THEN "connected" ELSE "unreachable"

Ping ==
    /\ hpc = "ping" /\ ~Hangs(copy.config)
    /\ hpc' = "write" /\ outcome' = Answer(copy.config) /\ UNCHANGED <<hns, hname, copy, crossed>>
    /\ UNCHANGED <<kind, cluster, resolver, quiet, edits>>

Done ==
    /\ hpc' = "idle" /\ hns' = "app" /\ hname' = "default" /\ copy' = NoCopy
    /\ crossed' = "no" /\ outcome' = "none"

\* Only this worker writes the status, so the version is the one it has read
\* unless the host was edited since.
Accepts == Present(hosts[hns][hname].config) /\ crossed = "no"

\* Mutant: an error replaces no report.
WriteIfConnected ==
    /\ hpc = "write" /\ Done
    /\ \/ /\ copy.report # outcome /\ outcome = "connected" /\ Accepts /\ UNCHANGED edits
          /\ hosts' = [hosts EXCEPT ![hns][hname].report = outcome]
       \/ (copy.report = outcome \/ outcome # "connected" \/ ~Accepts) /\ UNCHANGED <<hosts, edits>>
    /\ UNCHANGED <<kind, secret, engine, resolver, quiet>>

\* The status is written if it changes, on the version that was read; after a
\* conflict or an error the host is fetched again.
WriteStatus ==
    /\ hpc = "write" /\ Done
    /\ \/ /\ copy.report # outcome /\ Accepts /\ UNCHANGED edits
          /\ hosts' = [hosts EXCEPT ![hns][hname].report = outcome]
       \/ (copy.report = outcome \/ ~Accepts) /\ UNCHANGED <<hosts, edits>>
       \/ copy.report # outcome /\ Accepts /\ Trouble /\ UNCHANGED hosts
    /\ UNCHANGED <<kind, secret, engine, resolver, quiet>>

ReconcileHost ==
    ReadSecret \/ Ping \/ WriteStatus \/ \E ns \in Namespaces, n \in Names : Fetch(ns, n)

-----------------------------------------------------------------------------
(* The environment. *)

\* A DockerHost is created, edited or deleted.
EditHost(ns, n, c) ==
    /\ Trouble /\ quiet' = 0 /\ hosts[ns][n].config # c
    /\ LET h == hosts[ns][n]
           kept == Present(h.config) /\ Present(c)
       IN hosts' = [hosts EXCEPT ![ns][n] =
                       [config |-> c, report |-> IF kept THEN h.report ELSE "none"]]
    /\ crossed' = IF hpc # "idle" /\ <<hns, hname>> = <<ns, n>> THEN "yes" ELSE crossed
    /\ UNCHANGED <<hpc, hns, hname, copy, outcome>>
    /\ UNCHANGED <<kind, secret, engine, resolver>>

EditSecret(ns, s) ==
    /\ Trouble /\ quiet' = 0 /\ secret[ns] # s
    /\ secret' = [secret EXCEPT ![ns] = s]
    /\ UNCHANGED <<kind, hosts, engine, resolver, pinger>>

\* Only pings notice what an engine does, and only cached clients how time passes.
ChangeEngine(u, s) ==
    /\ Trouble /\ kind = "host" /\ u \notin BadUrls /\ engine[u] # s
    /\ engine' = [engine EXCEPT ![u] = s]
    /\ UNCHANGED <<kind, hosts, secret, resolver, pinger, quiet>>

Older(a) == IF a < TTL THEN a + 1 ELSE a
Tick ==
    /\ kind # "host" /\ pc = "idle" /\ quiet' = Older(quiet)
    /\ cache' = [r \in Refs |-> IF cache[r].url = "none" THEN NoEntry
                                ELSE [cache[r] EXCEPT !.age = Older(@)]]
    /\ UNCHANGED <<kind, cluster, open, pc, ref, got, cert, pinger, edits>>

\* The operator is restarted: its clients and its copies are gone.
Crash ==
    /\ Trouble /\ Return /\ Done
    /\ cache' = [r \in Refs |-> NoEntry] /\ open' = 0
    /\ UNCHANGED <<kind, cluster, quiet>>

Environment ==
    \/ \E ns \in Namespaces, n \in Names, c \in Configs \cup {Absent} : EditHost(ns, n, c)
    \/ \E ns \in Namespaces, s \in Contents : EditSecret(ns, s)
    \/ \E u \in Urls, s \in {"up", "down", "hung"} : ChangeEngine(u, s)
    \/ Tick \/ Crash

Next == getDockerClient \/ ReconcileHost \/ Environment
Spec == Init /\ [][Next]_vars

\* A host comes up again every 30 seconds, and the work queue serves hosts in turn.
FairSpec ==
    /\ Spec /\ WF_vars(ReadSecret \/ Ping \/ WriteStatus)
    /\ \A ns \in Namespaces, n \in Names : SF_vars(Fetch(ns, n))

-----------------------------------------------------------------------------
(* Properties. *)

\* What dockerHostRef means now: the DockerHost of the own namespace, or that of
\* "system", with the certificates of the own namespace.  Absent if there is none.
Wanted(r) ==
    LET own == hosts["app"][HostName(r)].config
        c == IF Present(own) THEN own ELSE hosts["system"][HostName(r)].config
    IN [url |-> c.url, cert |-> IF c.tls = "yes" THEN secret["app"] ELSE "none"]

\* Staleness is bounded.  Once nothing has been edited for TTL, a client that
\* getDockerClient takes from its cache is the one that dockerHostRef, the DockerHosts
\* and the Secret ask for, whatever the edits before crossed (reconciler.go:622-632).
StaleNoLonger ==
    quiet = TTL =>
        \A r \in Refs : LET e == cache[HostName(r)] IN
            Fresh(e) => [url |-> e.url, cert |-> e.cert] = Wanted(r)

\* Clients are closed: as many are open as the cache holds.  A service whose
\* container has no dockerHostRef is the exception: its client is stored under a key
\* that is never looked up, and the next reconcile opens another one and loses this
\* one (dockerservice/reconciler.go:668).
ClientsClosed ==
    cache["omitted"] = NoEntry => open = Cardinality({r \in Refs : cache[r].url # "none"})

\* What the ping of a host would find now.
Reachable(ns, n) ==
    LET c == hosts[ns][n].config
    IN IF c.tls = "yes" /\ secret[ns] \notin Certs
       THEN IF secret[ns] = "none" THEN "noSecret" ELSE "badSecret"
       ELSE Answer(c)

\* In the end the report of every host is right, unless a host without TLS hangs:
\* its Ping has no timeout, and the worker waits for it (dockerhost/reconciler.go:118).
ReportsConverge ==
    <>[](\A ns \in Namespaces, n \in Names :
            kind = "host" /\ Present(hosts[ns][n].config) =>
                \/ hosts[ns][n].report = Reachable(ns, n)
                \/ hpc = "ping" /\ Hangs(copy.config))
=============================================================================
