# lbex in TLA+

lbex watches the services, endpoints and nodes of a Kubernetes cluster and
keeps an NGINX outside the cluster configured as a TCP/UDP load balancer for
the services that ask for it. These modules model that: from an event in the
cluster, through three task queues and their workers, to the files in
`conf.d` and what NGINX runs, with the two processes starting, crashing and
starting again around it; and the HTTP side of the Configurator, which the
package offers and lbex does not use.

## 1. The system and its parts

| Part | Code | Model |
|---|---|---|
| Task queue: a de-duplicating queue of keys and one worker | `task_queue.go`, vendored `workqueue/queue.go`, `wait.go` | `WorkQueue`, `TaskQueue`, abstract: `PendingSet` |
| Services: which are for lbex, their annotations | `service.go`, `annotations/`, `nginx/service.go` | `ServiceObject` |
| Topology: the targets behind a service, affinity and base checks | `controller.go` 261-500 | `Topology` |
| Stream configuration: upstreams and servers of one service | `nginx/configurator.go` 313-385, 595-700 | `StreamConfig` |
| One sync as a whole, without concurrency | `controller.go` 160-215 | `ServicePipeline` |
| Configurator state: candidate nodes, what each service uses, files, reload | `nginx/configurator.go`, `nginx/stream.go`, `nginx/nginx.go` | `Configurator`, `UpstreamTracking` |
| The running controller: informers, handlers, three workers | `controller.go`, `services.go`, `endpoints.go`, `nodes.go`, `node.go` | `Lbex` |
| The lbex process and NGINX: start, files in steps, asynchronous reload, crash and restart | `main.go`, `nginx/nginx.go`, `nginx/stream.go`, `Dockerfile`, unit file in `bin/gce-up.sh` | `NginxController` |
| Flags and environment | `config.go` | `EnvConfig` (texts: `Text`) |
| HTTP / Ingress configuration | `nginx/configurator.go` 118-311, 387-593, 662-750, `nginx/http.go`, `http_context.go`, `convert.go`, `ingress.go` | `IngressConfig`, `HTTPConfigurator` |
| API clients, the rest of the scripts | `main.go`, `bin/` | not modelled |

How they interact. An informer changes its store, then calls an event handler,
which enqueues the key. Each kind of object has a queue with one worker. The
services worker reads the service, computes its topology from the endpoints and
has the Configurator write a file and reload NGINX, or delete the file if the
service is gone. The endpoints worker enqueues the service of its endpoints. The
nodes worker tells the Configurator of the node and enqueues the services it
reports as affected. Handlers and workers are goroutines of their own; the
Configurator has a lock, the stores are read at different moments.

## 2. The modules

`WorkQueue` has the methods of the vendored queue as operators on a record
(`queue`, `dirty`, `processing`, `shuttingDown`). `TaskQueue` is the program
around them: producers in `Enqueue` (`EnqueueCheck`, `EnqueueAdd`: the test for
shutdown and the `Add` are two steps), the worker (`WorkerGet` ... `WorkerDone`,
`WorkerQuit`), the restart by `wait.Until` (`UntilPeriod`) and `Shutdown`. Values
of objects are abstracted to two facts: which keys are `outdated`, and whether
what the running sync has read is still `fresh`. `PendingSet` is what a caller may
rely on: a set of pending keys, one taken at a time, none passed over for ever.

`ServiceObject`, `Topology` and `StreamConfig` are operators, one per function of
the code and with its name. Names are sequences of words, so that a key is
`<<"a","b","/","c">>` for `a-b/c`, and `ConfigName` really joins the parts as
`strings.Replace` does and can clash. Port annotations are a number or
malformed, a file is the set of its upstreams and servers, and `NginxAccepts` is
what `nginx -t` rejects of such files: an empty upstream, a server without a host,
a port that is 0 or above 65535, an upstream name, a listen port or a resolver
given twice, a text that is no resolver (`Resolvers` are the ones that are), an
algorithm the open-source NGINX does not have.

`ServicePipeline` runs them on one service. The Endpoints object is derived from
service and pods the way the Kubernetes endpoints controller does it (external).

`Configurator` has the package-level maps `nodes`, `serviceUpstreamNodes` and
`serviceUpstreamTarget`, the `files`, what NGINX is `running` and the last
`reloadErr`. Its operations hold the lock, so each is one step, the write and the
reload included. `UpstreamTracking` calls them in any order.

`Lbex` puts all of it together. Every read of a store, every operation on a
queue and every operation of the Configurator is a step: `ServicesGet`,
`ServicesRead`, `ServicesTopo`, `ServicesPort` (the endpoints are read anew for
every port of the service), `ServicesWrite`/`ServicesDelete`, `ServicesDone`, and
likewise for endpoints and nodes. The services informer and worker start
after the others, at any time (`StartServices`; in the code after five seconds).

`NginxController` opens up what `Configurator` has in one step. lbex goes through
`Main` (settings, version, access to the cluster), `CreateMain` and `ExecuteMain`
(the main file), `Start` and `Run`; then it syncs one service after the other:
`OpenFile` truncates the file, `WriteSome` leaves it cut short, within a block or
with some of its servers (`Pieces`), `WriteRest` ends it, `Test` is `nginx -t` and
`Signal` is `nginx -s reload`, which returns at once. The NGINX master (external)
then lists `conf.d`, reads one file after the other and switches to what it has read
if it can load it (`BeginLoad`, `ReadFile`, `EndLoad`), while lbex goes on. Either
process can crash at any step (`Crash`, `NginxDies`), and NGINX, a daemon, may
outlive lbex. `Restart` is what the two deployments do on every start. A new
container has the empty `conf.d` of the image (`Dockerfile` 13). On a machine the
files of the run before are still there: the unit file has `ExecStartPre=/bin/rm
--force /etc/nginx/conf.d/*`, but systemd runs it without a shell, so that the `*`
is not expanded and nothing is removed. `found` is the history of what was there
when lbex last started. What a service calls for is a stream configuration; how it
is computed is the other modules' matter, and the services due for a sync are a set,
as `PendingSet` allows. `EnvConfig` has the flags, the `LBEX_` variables and what
`pflag` makes of their texts.

`IngressConfig` has the generation of the HTTP configuration of one Ingress,
function by function: settings and annotations, upstreams, locations,
certificates, servers. Names here are sequences of tokens, with "-" and the
digits of ports as tokens, since the code joins names both with and without a
dash. Two settings stand for all that are taken as they are, one of servers and
one of locations, one for all that are parsed; the three of HSTS are all there.

`HTTPConfigurator` calls `AddOrUpdateIngress`, `DeleteConfiguration`,
`UpdateMainConfigHTTPContext` and `AddOrUpdateDHParam` in any order on a
Configurator made with `HTTPCfg`. All but the last, which writes one file, hold the
lock. `AddOrUpdateIngress` is two steps, `updateCertificates` and the writing of the
configuration with the reload (`op` is the Ingress it is at), as NGINX may follow an
earlier reload between the two. `Reload` fails when `nginx -t` does, or when
`nginx -s reload` does by itself; if it succeeds NGINX follows in its own time
(`Follow`, external) and goes on with what it has if it does not take what it
finds then (`reloadErr` tells these apart). `HTTPAccepts` is what NGINX takes: no
upstream and no path of a server twice, certificates and `dhparam.pem` that are there
and good, and texts that are good for the directive they are copied to. Which texts
and files are good is a parameter (`Takes`), since the code copies annotations,
paths, rewrites, secrets and contexts as they are. `asked`, `given` and `latest` are
history: the settings last asked for, what each file was made from, and the newest
contents of each secret; `running` has the ones of the last load.

Definitions whose name has the form `X_Y` and whose comment starts with "A bug"
are wrong variants of `X`; nothing refers to them. With one of them in the place
of `X` the properties of the runs fail, which shows that those can.

## 3. The runs

| Run | Checks | Instance |
|---|---|---|
| `task_queue` | `TypeOK`, `QueueConsistent`, `NoLostUpdate`, `ShutdownStopsSync`, `Settles`, `ShutdownReturns`, `ImplementsPendingSet` | 3 keys, 2 producers |
| `service_pipeline` | `TrafficReachesService`, `ManagedGetsTopology`, `GeneratedIsAccepted`, `AffinityPartition` | one service of up to 2 ports in every mix of annotations, with and without node ports, up to 2 pods and nodes, 11 flag settings |
| `upstream_tracking` | `TypeOK`, `AllSetFollowsNodes`, `RunningIsOnDisk` | 2 nodes that change address or schedulability, 2 services, reload signals that may fail |
| `lbex_pods` | `TypeOK`, `ServedAsStored`, `DeletedIsGone`, `QueuesArePendingSets` | one service of two ports that comes, goes and changes, a pod coming and going |
| `lbex_nodes` | `CandidatesFollowCluster`, `NoStaleNode` | a service on all nodes, one node coming, going, being cordoned, its deletion missed |
| `lbex_live` | `ComesToRest`, `DeletionTakesEffect` | one service, one pod that comes and goes |
| `nginx_restart` | `TypeOK`, `SettledServesCluster`, `CommandLineWins` | 2 services that may ask for one port, 5 ways to configure and deploy lbex, 1 crash |
| `nginx_recovery` | `SettledServesCluster`, `Recovers` | 1 service of up to two servers that may be rejected or ask for the port of the health check, the same 5 ways, 2 crashes |
| `ingress` | `GeneratedHTTPAccepted`, `PathsReachBackend`, `DefaultBackendTakesRest`, `CertificatesAreOwn`, `SettingsStayApart`, `HSTSTogether` | 3 Ingresses in 20 forms, 2 contexts, 2 updates |

Bounds. Two things are counted. `MaxFaults` bounds the crashes: one is enough to
leave any intermediate state behind, two for a crash during the recovery from
another. `MaxUpdates` bounds the additions and updates of Ingresses: two are enough
for an Ingress and a change of it, or for two Ingresses that share a host, a secret
or a name, with any number of deletions, changes of the context and failing reloads
in between. The instance has every case that a premise of a property excludes: names
that clash, a path twice, a host twice, texts, secrets and contexts that NGINX does
not take. Everything else is finite because the sets of objects are, and the cluster
may change without end. Three keys are enough for a key to be queued behind another
while a third is processed, and two producers for two concurrent `Enqueue` calls of
one key. Two ports are enough for the targets of one to end up in the upstream of
the other. In `Lbex` keys meet only in the files and in the reload, which
`upstream_tracking` has with two services, so one service at a time is enough there,
except where names clash. Its endpoints are there or not, so that a topology can be
a mix of both. Two services are enough for NGINX to read a file of one before and a
file of the other after a write.

Deadlock is not checked where a panic ends the process (`task_queue`,
`lbex_pods`) and where a sync simply ends (`service_pipeline`).

Fairness. Each goroutine is weakly fair: the Go scheduler runs what can run, and
each is one conjunct. `SyncApply` is strongly fair: a sync that is tried again
and again succeeds in the end. None of lbex's sync functions returns an error
(a `GetByKey` of these stores does not fail), so this only excludes a failure the
program does not have. In `NginxController` lbex, its supervisor and the NGINX
master are weakly fair together: as long as one of them can go on, one does.
`Restart=always` justifies it for the supervisor. It is weaker than fairness of
each, and enough: between changes of the cluster each has only finitely much to
do. Crashes are not fair. Changes of the cluster and `Shutdown` are not fair. Of a
paused or dead API server nothing is assumed.

### Where the code does something else

Three runs state what a comment or the README says and show that the code does
not do it:

- `pipeline_optional_port`: with `--require-port=false` no service is served at
  all, since `baseCheck` sets its result only inside the check of the port.
- `tracking_host`: of the nodes of a service with node set `host` only the last
  is recorded, and a change of another one is not traced to the service.
- `lbex_last_pod`: a service that loses its last pod keeps its file, and its
  traffic still goes to the node the pod was on.

Others were met while modelling, are in the model as the code has them, and show
up as premises of the properties above or in the list of hazards: `wait.Until`
restarts the worker after `Shutdown`, which closes `workerDone` twice (nothing
calls `Shutdown`); an endpoint without a node name is a nil dereference;
`getEndpoints` gives two service ports with the same target port each other's
targets, and finds none for a named target port that differs from the port's
name; the `unnamed` annotation is accepted and then not found; an unschedulable
node that is not known yet is added; a new node does not reach services that are
already written for node set `all`; `DeleteConfiguration` deletes from the two
maps under a key they do not have; a service written before its node is known
gets an empty upstream and is not written again when the node comes; a node whose
deletion is learnt from a re-list stays a candidate, as `filterNode` drops the
tombstone; `a-b/c` and `a/b-c` have the same file.

Of the processes: an NGINX that dies under a running lbex is not started again;
one that outlives lbex keeps the next one from starting, and answers the health
check meanwhile; a service that asks for the port of the health check passes
`nginx -t` and blocks every later load; a variable that does not parse sets its
flag to zero, and `main` drops the error. lbex does not empty `conf.d` itself, and
neither does the `rm` of the unit file. So on a machine a file that was cut short or
rejected keeps NGINX, and with it lbex, from ever starting again, which is a premise of
`Recovers`; and a service that is deleted while lbex is down is served on, which
`Wanted` in `SettledServesCluster` allows for. In a container neither happens.

Of one service's configuration: a service of type ClusterIP has no node ports, and
balanced to nodes, the default, it gets `server address:0`, which NGINX rejects; the
resolver is not checked. `GeneratedIsAccepted` has both as premises.

Of the HTTP side: upstream names leave out the port and join with dashes, so that
two ports of a service under one host share the first one's endpoints, and
`NamesTellApart` is a premise; two rules for one host each get a server of that
name, of which NGINX ignores all but the first, so that `PathsReachBackend` and
`DefaultBackendTakesRest` are about hosts with one server (`ServersNamed`); texts
and secrets are not checked, and one that NGINX does not take fails the test for all
Ingresses (`TextsFit`, `FilesFit`); a reload that fails is not tried again; the keys
of endpoints join service and port without a separator; an Ingress whose rules all
lack paths has no server, its default backend included;
`UpdateMainConfigHTTPContext` loses the health check and does not reload;
`createDir` ends a second start; `StreamHTTPCfg` includes neither kind of file.

## 4. The proofs

`TaskQueueProofs` is about any set of keys and of producers, under
`NoKeyAssumption` (`NoKey` is not a key).

- `TypeCorrect`, `QueueStaysConsistent`, `NoUpdateIsLost`, `ShutdownIsQuiet`:
  the invariants of the `task_queue` run. None is inductive alone. The invariant
  `IInv` adds that `processing` is exactly the key the worker holds
  (`WorkerHolds`), that a producer between its steps has a key
  (`ProducersHold`), and that `workerDone` closed means a queue that is shut
  down and empty (`DrainedWhenDone`). `AddLemma`, `GetLemma` and `DoneLemma`
  (`SharedLemmas`) say once what each method of the queue does to the record; the
  step lemmas use those, and one step per action follows.
- `RefinesPendingSet`: every step is a step of `PendingSet` or a stutter, with
  `pending` as `dirty` and `current` as the worker's key. This is safety only.

`UpstreamTrackingProofs` is about any nodes and specifications, under
`NodesAssumption` (what a node is), `SpecsAssumption` (a specification has
targets; a config name is not a key) and `DistinctConfigNames`.

- `StaleFilesAreReported` (`AllSetFollowsNodes`). The property says nothing of
  what the Configurator has recorded, and that is what a changed node is looked
  up in. `Tracked` adds it: for a service not reported, the recorded nodes
  account for every address in its file, and they are still the candidates, with
  the addresses they had when recorded.
- `ReloadCatchesUp` (`RunningIsOnDisk`) and `TypeCorrect`.

`NginxControllerProofs` is about any services, stream configurations, settings
and number of faults, under `KnownFlags` (the command line has only flags of
lbex).

- `RestServesCluster` (`SettledServesCluster`). The property speaks of states at
  rest, and says nothing of how they came about. The invariant follows a
  configuration on its way. `OnDisk`: while lbex syncs, the file of every service
  that is not due agrees with the cluster, except the one being written, whose
  job agrees with it, and of other services there are the files lbex found; before
  that `conf.d` is as it was found (`FoundFiles`). `InNginx`: whenever lbex is
  between two syncs and NGINX can load the files, NGINX has been signalled and has
  not begun, or is reading and has read nothing that differs from the disk
  (`CatchingUp`), or serves from exactly these files. It says nothing while a
  file is being written and tested, as a signal follows unless the test fails.
- `GivenFlagsStand` (`CommandLineWins`), from what `envParse` skips.
- `TypeCorrect`, with `NamesAssumption` (a config name is not empty) and
  `FaultsAssumption`. That NGINX runs exactly while it has a complete main file
  needs that a load fails for one that was cut short (`Complete`).

`LbexProofs` and `LbexServedProofs` are about any services, endpoints, nodes and
flags, under `ServicesAssumption` (a service has a key, and its ports are numbered
from one), `ConfigNamesAssumption` (config names do not clash, and none is a key)
and `NamesAssumption` (no key and no node name is empty). The first has the types,
the queues and the invariant with what deletions and nodes do to it, the second
what the workers do for the services that are there.

- `TypeCorrect`: from `Shape`, which adds that each queue is consistent, that what
  it processes is what its worker holds, and what a worker has at each of its
  steps.
- `QueuesRefinePendingSet`: each of the three queues implements the safety part of
  `PendingSet`, the services queue being filled by its handler and by the two other
  workers. From `Shape`: a step adds a key to a queue, takes the next one, gives the
  worker's own key back or leaves the queue alone (`QueueStep`), and each of these
  is a step of the set (`QueueStepIsPending`). The run has no nodes, so that for
  the nodes queue this rests on the proof.
- `Invariance`: `ServedAsStored`, `DeletedIsGone`, `CandidatesFollowCluster` and
  `NoStaleNode` speak of lbex at rest, and so say nothing of the states on the
  way. `IInv` says for every state that whatever does not fit the stores is about
  to be put right. For a service to be served (`Accounted`): its event or key is
  waiting (`Due`); or the endpoints or the nodes worker is going to enqueue it
  (`EndpointsDue`, `NodesDue`); or the services worker is at it and nothing it has
  read has changed since (`SyncFresh`); or its file is as it should be and no
  sync that has read something is under way (`Current`, `Syncing`). Of a service
  that was deleted (`GoingAway`), a file is to be removed, and a write that is
  still to come is followed by another sync. Of a node whose deletion was not
  missed (`NodeAccounted`) the same with the queue of the nodes. `Current` includes
  what the Configurator has recorded, as in `Tracked` above: without it a change of
  a node could not be traced to the services that use it.
- `ServedAsStoredHolds`, `DeletedIsGoneHolds`, `CandidatesFollowClusterHolds`,
  `NoStaleNodeHolds`: what `IInv` says when nothing is waiting and no worker is
  busy.

`ServicePipelineProofs` is about any services with any number of ports, any pods,
nodes and flags, under `InputsAssumption`, which is what Kubernetes lets pass: the
ports of a service are a list, have numbers from 1 to 65535 and are told apart by
their names, a numeric target port is not 0, a service of a type that has a
cluster address was given one, and one of a type that has node ports was given
those, an annotation has a name, and a ready pod has an
address. That ports have names and distinct target ports (`PortsDistinct`), and
that nodes are known, are premises of the properties, not assumptions.

- What a sync computes is a function of its inputs, so the invariant (`Inv`,
  `InvHolds`) only says which results there are at which step. The work is in
  what those results are.
- `TopologyHasTargets`: the topology has exactly the targets that the service's
  ports have in the Endpoints object. `Concatenates` says what a list of lists has
  in it; the recursion it is defined by is shown to have a solution
  (`ConcatenationBuilds`), and both are by the least length that fails
  (`LeastNumber`). `PortsSorted` says that sorting by rule name loses no port: rule
  names order the ports (`PortsCompare`), so the number of ports that come before
  one is a different place for each, and all places are taken (`FS_Injection`).
- `ManagedGetsTopologyHolds`: a port that has a number has its own endpoint port
  as a target for each pod (`OwnEndpointPort`, `PodTargets`).
- `GeneratedIsAcceptedHolds`: each upstream name has one first target
  (`FirstOfName`), so no upstream is there twice; every target has an address with
  a host and a port from 1 to 65535 (`AddressesAccepted`); and a target that listens
  is of a port with that annotation (`ListensForPort`), so no listen port is there
  twice (`ListenPortsDiffer`) or out of range.
- `TrafficReachesServiceHolds`: the name of an upstream tells the port
  (`NamesDiffer`, `TargetsByName`), so behind it are the addresses of all pods at
  that port and of no other (`ServersOfPort`), which for each upstream type are the
  backends (`AddressesAreBackends`).
- `AffinityPartitionHolds`: the two instances differ in the flags `checkAffinity`
  reads and in nothing else that `Managed` does.

`HTTPConfiguratorProofs` is about any Ingresses, secrets and contexts and whatever
NGINX takes, under `IngressesAssumption` (rules, their paths and the TLS entries are
lists, and there is at most one default backend) and `RootAssumption` (NGINX takes a
location for `/`). What the properties need of names, hosts, paths, texts and secrets
is a premise of theirs, not an assumption.

- `HTTPInvariance`: the properties compare what NGINX runs with the Ingresses it
  came from, and need to know how it came about. `FilesAsMade`: every file is
  what `generateNginxIngressCfg` makes of the Ingress last given and of the context
  asked for last. `RunsWhatWasMade`: so is what NGINX runs; it was accepted, so no
  server in it has a path twice; and after a reload that succeeded it is what was
  given, or NGINX has still to follow (`ReloadTells`). `SecretsWritten`: every
  secret of an Ingress has its file, and every file the newest contents of a secret
  it is for, also in what NGINX runs.
- `AnnotationsStayApart`, `HSTSStaysTogether`, `CertificatesStayOwn`,
  `PathsGoToBackend`, `RestGoesToDefaultBackend`, `GeneratedStaysAccepted`: the
  properties of the `ingress` run. They follow from lemmas about the generator:
  an upstream is made at the first place that has its name (`FirstPlace`,
  `UpstreamsOfBackends`), every location passes to the upstream of its backend
  (`LocationUpstream`, `PathLocation`, `RootLocation`), no two locations of a
  server have a path in common (`LocationsDiffer`), a location is that of a path of a
  rule or of the default backend (`LocationsOfServer`), and the certificate of a host
  is that of the last secret that covers it (`PemIsOfSecret`). `OneServerTakes` says
  where NGINX sends a request when one server has the name of the host. That there is a
  first or last place is by well-foundedness (`LeastNatural`).

`SharedLemmas` has the lemmas on the work queue (`AddLemma`, `GetLemma`,
`DoneLemma`) and on what a stream configuration depends on (`AllHosts`,
`NodesDoNotMatter`), which several of these use.

Model-checked only:

- Liveness and fairness, which are out of the prover's reach: `Settles`,
  `ShutdownReturns`, `ComesToRest`, `DeletionTakesEffect`, `Recovers`, the fairness
  in `ImplementsPendingSet`.

## 5. What is left out

- A resync calls the update handlers with equal objects, which drop them: no
  step. Watch errors other than a missed deletion of a node are not modelled.
- `sort.Sort` is not stable from twelve targets on; the order of targets is only
  used to find the first of each port.
- Templates, logging, the `String` methods, and functions without a caller that
  only forward or list (`getServices`, `UpdateServiceEndpoints`,
  `UpdateIngressEndpoints`).
- `LocalCfg` (a machine without NGINX) and `StreamHTTPCfg` (nothing makes one).
- Which of several servers of one name NGINX takes (the first it reads), and which
  server takes a host that none is named for. A server with a certificate may
  redirect plain requests to https; `Requests` is where they end up.
- A main file cut between two blocks counts as rejected, and so does an HTTP file
  that NGINX reads while it is being written; `NginxController` has the pieces of
  stream files.
- Endpoints of Ingresses are `address:port`, and hosts are what Kubernetes lets pass
  as one.
- The API clients: an access to the cluster works or does not (`Usable`).
- `Lbex` and `NginxController` are not composed into one state machine: what the
  workers need of NGINX is one reload after each write, and what NGINX needs of
  them is the set of services due. Together they are beyond TLC.
- I/O errors other than crashes: a file that cannot be created or written ends
  lbex (`glog.Fatalf`), which is a crash at that step.

## 6. Plan

1. Joining `ServedAsStored` with `TrafficReachesService`: at rest, clients of every
   served service reach its present pods. The first has the Endpoints of the store,
   the second those that Kubernetes makes of the pods.
2. `NginxController` under the workers of `Lbex`, with what the workers need of it
   as an abstract specification.
