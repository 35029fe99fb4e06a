-------------------------------- MODULE Lbex ---------------------------------
(***************************************************************************)
(* The running controller (controller.go, services.go, endpoints.go,       *)
(* nodes.go): three informers that keep the stores and enqueue keys, three *)
(* task queues with a worker each, and the Configurator they share.        *)
(*                                                                         *)
(* The stores are the cluster as lbex sees it.  An informer changes its    *)
(* store, then calls the event handler, then takes the next change; what   *)
(* other goroutines do in between is what this module is about.  Every     *)
(* read of a store, every operation on a queue and every operation of the  *)
(* Configurator (which holds its lock) is a step.                          *)
(*                                                                         *)
(* Nothing calls TaskQueue.Shutdown and no store operation or sync returns *)
(* an error, so here the queues neither shut down nor requeue (TaskQueue   *)
(* has both).  A resync calls the update handlers with equal objects, which*)
(* they drop.                                                              *)
(***************************************************************************)
EXTENDS WorkQueue, Topology, Configurator

CONSTANTS cfg,              \* the flags
          Services,         \* the states each service can be in
          EndpointStates,   \* the states the Endpoints of a key can change to:
                            \* {subsets}, or {} when they are deleted
          NodeNames,
          NodeVersions(_),  \* the states a node can be in
          MissedDeletes     \* an informer may learn of a node's deletion by a re-list

\* Every service has a key, and its ports are numbered from one.
ASSUME ServicesAssumption ==
  \A s \in Services : KeyOf(s) \in Keys /\ Len(s.ports) \in Nat /\ DOMAIN s.ports = 1..Len(s.ports)

\* A config name has no "/" and so is no key.  Config names do not clash:
\* services whose names join alike share a file.
ASSUME ConfigNamesAssumption ==
  \A j, k \in Keys : ConfigName(j) # k /\ (ConfigName(j) = ConfigName(k) => j = k)

\* Keys and names of nodes are not empty.
ASSUME NamesAssumption == <<>> \notin Keys /\ NoNode \notin NodeNames

VARIABLES servicesStore, endpointStore, nodesStore,
          sevent, eevent, nevent,   \* keys whose event handler is to be called
          sq, eq, nq,               \* the work queues
          sw, ew, nw,               \* the workers, and what they hold
          started,                  \* the services informer and worker run
          panicked,
          missed                    \* nodes whose deletion no handler was told of

stores == <<servicesStore, endpointStore, nodesStore>>
events == <<sevent, eevent, nevent>>
queues == <<sq, eq, nq>>
workers == <<sw, ew, nw>>
vars == <<cfgtorVars, stores, events, queues, workers, started, panicked, missed>>

\* A worker holds a key from Get to Done, and what it has read: the services
\* worker the object and the topology, the nodes worker the node, if there was
\* one, and the affected services it still has to enqueue.
Idle == [pc |-> "idle"]

Init ==
  /\ CfgtorInit
  /\ servicesStore = <<>> /\ endpointStore = <<>> /\ nodesStore = <<>>
  /\ sevent = {} /\ eevent = {} /\ nevent = {}
  /\ sq = EmptyQueue /\ eq = EmptyQueue /\ nq = EmptyQueue
  /\ sw = Idle /\ ew = Idle /\ nw = Idle
  /\ started = FALSE /\ panicked = FALSE /\ missed = {}

-----------------------------------------------------------------------------
(* Informers *)

Put(store, k, obj) == [j \in DOMAIN store \cup {k} |-> IF j = k THEN obj ELSE store[j]]
Drop(store, k) == [j \in DOMAIN store \ {k} |-> store[j]]

\* filterObject: the handlers of services and endpoints leave out kube-system.
Handled(k) == IF InKubeSystem(k) THEN {} ELSE {k}

ServiceChange(k) ==
  /\ started /\ sevent = {}
  /\ servicesStore' \in {Put(servicesStore, k, s) : s \in {s \in Services : KeyOf(s) = k}}
                          \cup {Drop(servicesStore, k)}
  /\ servicesStore' # servicesStore
  /\ sevent' = Handled(k)
  /\ UNCHANGED <<cfgtorVars, endpointStore, nodesStore, eevent, nevent, queues, workers, started, panicked, missed>>

EndpointsChange(k) ==
  /\ eevent = {}
  /\ \E state \in EndpointStates :
       endpointStore' = IF state = {} THEN Drop(endpointStore, k)
                        ELSE Put(endpointStore, k, CHOOSE subsets \in state : TRUE)
  /\ endpointStore' # endpointStore
  /\ eevent' = Handled(k)
  /\ UNCHANGED <<cfgtorVars, servicesStore, nodesStore, sevent, nevent, queues, workers, started, panicked, missed>>

NodeChange(n) ==
  /\ nevent = {}
  /\ nodesStore' \in {Put(nodesStore, n, v) : v \in NodeVersions(n)} \cup {Drop(nodesStore, n)}
  /\ nodesStore' # nodesStore
  /\ nevent' = {n} /\ missed' = missed \ {n}
  /\ UNCHANGED <<cfgtorVars, servicesStore, endpointStore, sevent, eevent, queues, workers, started, panicked>>

\* The watch broke and missed the deletion: the handler gets a tombstone, which
\* filterNode takes for something that is no node.
NodeDeletionMissed(n) ==
  /\ MissedDeletes /\ nevent = {} /\ n \in DOMAIN nodesStore
  /\ nodesStore' = Drop(nodesStore, n)
  /\ missed' = missed \cup {n}
  /\ UNCHANGED <<cfgtorVars, servicesStore, endpointStore, events, queues, workers, started, panicked>>

ServiceHandler(k) ==
  /\ sevent' = sevent \ {k} /\ sq' = Add(sq, k)
  /\ UNCHANGED <<cfgtorVars, stores, eevent, nevent, eq, nq, workers, started, panicked, missed>>

EndpointsHandler(k) ==
  /\ eevent' = eevent \ {k} /\ eq' = Add(eq, k)
  /\ UNCHANGED <<cfgtorVars, stores, sevent, nevent, sq, nq, workers, started, panicked, missed>>

NodeHandler(n) ==
  /\ nevent' = nevent \ {n} /\ nq' = Add(nq, n)
  /\ UNCHANGED <<cfgtorVars, stores, sevent, eevent, sq, eq, workers, started, panicked, missed>>

\* run starts services five seconds after the others, whatever these have done.
StartServices ==
  /\ ~started /\ started' = TRUE
  /\ UNCHANGED <<cfgtorVars, stores, events, queues, workers, panicked, missed>>

-----------------------------------------------------------------------------
(* The services worker: syncServices *)

ServicesGet ==
  /\ started /\ sw.pc = "idle" /\ HasItem(sq)
  /\ sw' = [pc |-> "read", key |-> Head(sq.queue)]
  /\ sq' = Get(sq)
  /\ UNCHANGED <<cfgtorVars, panicked>>

ServicesRead ==
  /\ sw.pc = "read"
  /\ sw' = IF sw.key \in DOMAIN servicesStore
           THEN [pc |-> "topo", key |-> sw.key, svc |-> servicesStore[sw.key]]
           ELSE [pc |-> "delete", key |-> sw.key]
  /\ UNCHANGED <<cfgtorVars, sq, panicked>>

\* getServiceNetworkTopo reads the service once more, and then the endpoints
\* anew for each of its ports.
ServicesTopo ==
  /\ sw.pc = "topo"
  /\ sw' = IF Balanced(cfg, servicesStore, sw.key)
           THEN [pc |-> "ports", key |-> sw.key, svc |-> sw.svc,
                 ports |-> servicesStore[sw.key].ports, endpoints |-> <<>>]
           ELSE [pc |-> "done", key |-> sw.key]
  /\ UNCHANGED <<cfgtorVars, sq, panicked>>

\* What the worker w has read with the next port.
WithNextPort(w) ==
  Append(w.endpoints, getEndpoints(getServiceEndpoints(endpointStore, w.key),
                                   w.ports[Len(w.endpoints) + 1]))

\* Without any target the sync ends: a file the service may have stays.
ServicesPort ==
  /\ sw.pc = "ports"
  /\ LET endpoints == WithNextPort(sw)
         topo == SortedTopo(sw.ports, endpoints)
     IN /\ panicked' = DereferencesNil(endpoints[Len(endpoints)])
        /\ sw' = IF Len(endpoints) < Len(sw.ports) THEN
                   [pc |-> "ports", key |-> sw.key, svc |-> sw.svc, ports |-> sw.ports, endpoints |-> endpoints]
                 ELSE IF topo = <<>> THEN [pc |-> "done", key |-> sw.key]
                 ELSE [pc |-> "write", key |-> sw.key, svc |-> sw.svc, topo |-> topo]
  /\ UNCHANGED <<cfgtorVars, sq>>

ServicesWrite ==
  /\ sw.pc = "write"
  /\ AddOrUpdateService(SpecOf(sw.svc, sw.topo))
  /\ sw' = [pc |-> "done", key |-> sw.key]
  /\ UNCHANGED <<sq, panicked>>

\* A bug: the file is looked for under the key itself.
ServicesDelete_ByKey ==
  /\ sw.pc = "delete"
  /\ DeleteConfiguration(sw.key)
  /\ sw' = [pc |-> "done", key |-> sw.key]
  /\ UNCHANGED <<sq, panicked>>

ServicesDelete ==
  /\ sw.pc = "delete"
  /\ DeleteConfiguration(ConfigName(sw.key))
  /\ sw' = [pc |-> "done", key |-> sw.key]
  /\ UNCHANGED <<sq, panicked>>

\* A bug: the worker goes on without telling the queue.
ServicesDone_NotTold ==
  /\ sw.pc = "done"
  /\ sw' = Idle
  /\ UNCHANGED <<cfgtorVars, sq, panicked>>

ServicesDone ==
  /\ sw.pc = "done"
  /\ sw' = Idle /\ sq' = Done(sq, sw.key)
  /\ UNCHANGED <<cfgtorVars, panicked>>

ServicesWorker ==
  /\ \/ ServicesGet \/ ServicesRead \/ ServicesTopo \/ ServicesPort
     \/ ServicesWrite \/ ServicesDelete \/ ServicesDone
  /\ UNCHANGED <<stores, events, eq, nq, ew, nw, started, missed>>

-----------------------------------------------------------------------------
(* The endpoints worker: syncEndpoints *)

EndpointsGet ==
  /\ ew.pc = "idle" /\ HasItem(eq)
  /\ ew' = [pc |-> "read", key |-> Head(eq.queue)]
  /\ eq' = Get(eq)
  /\ UNCHANGED <<sq, panicked>>

EndpointsRead ==
  /\ ew.pc = "read"
  /\ ew' = [pc |-> IF ew.key \in DOMAIN endpointStore THEN "topo" ELSE "enqueue", key |-> ew.key]
  /\ UNCHANGED <<sq, eq, panicked>>

EndpointsTopo ==
  /\ ew.pc = "topo"
  /\ ew' = IF Balanced(cfg, servicesStore, ew.key)
           THEN [pc |-> "ports", key |-> ew.key, ports |-> servicesStore[ew.key].ports, endpoints |-> <<>>]
           ELSE [pc |-> "done", key |-> ew.key]
  /\ UNCHANGED <<sq, eq, panicked>>

\* Only a service that has targets is enqueued.
EndpointsPort ==
  /\ ew.pc = "ports"
  /\ LET endpoints == WithNextPort(ew)
     IN /\ panicked' = DereferencesNil(endpoints[Len(endpoints)])
        /\ ew' = IF Len(endpoints) < Len(ew.ports) THEN
                   [pc |-> "ports", key |-> ew.key, ports |-> ew.ports, endpoints |-> endpoints]
                 ELSE [pc |-> IF SortedTopo(ew.ports, endpoints) = <<>> THEN "done" ELSE "enqueue",
                       key |-> ew.key]
  /\ UNCHANGED <<sq, eq>>

\* enqueuServiceObjects: the service is looked up, then enqueued.
EndpointsLookup ==
  /\ ew.pc = "enqueue"
  /\ ew' = [pc |-> IF ew.key \in DOMAIN servicesStore THEN "add" ELSE "done", key |-> ew.key]
  /\ UNCHANGED <<sq, eq, panicked>>

\* A bug: the key goes back into the queue it came from.
EndpointsAdd_OwnQueue ==
  /\ ew.pc = "add"
  /\ ew' = [pc |-> "done", key |-> ew.key] /\ eq' = Add(eq, ew.key)
  /\ UNCHANGED <<sq, panicked>>

EndpointsAdd ==
  /\ ew.pc = "add"
  /\ ew' = [pc |-> "done", key |-> ew.key] /\ sq' = Add(sq, ew.key)
  /\ UNCHANGED <<eq, panicked>>

EndpointsDone ==
  /\ ew.pc = "done"
  /\ ew' = Idle /\ eq' = Done(eq, ew.key)
  /\ UNCHANGED <<sq, panicked>>

EndpointsWorker ==
  /\ \/ EndpointsGet \/ EndpointsRead \/ EndpointsTopo \/ EndpointsPort
     \/ EndpointsLookup \/ EndpointsAdd \/ EndpointsDone
  /\ UNCHANGED <<cfgtorVars, stores, events, nq, sw, nw, started, missed>>

-----------------------------------------------------------------------------
(* The nodes worker: syncNodes *)

\* GetNodeAddress: the last address of the type in the node's status, if any.
GetNodeAddress(v, type) ==
  LET ofType == SelectSeq(v.addresses, LAMBDA a : a.type = type)
  IN IF ofType = <<>> THEN "" ELSE ofType[Len(ofType)].address

NodeOf(n, v) == [name |-> n, internalIP |-> GetNodeAddress(v, "InternalIP"),
                 externalIP |-> GetNodeAddress(v, "ExternalIP"), active |-> ~v.unschedulable]

NodesGet ==
  /\ nw.pc = "idle" /\ HasItem(nq)
  /\ nw' = [pc |-> "read", key |-> Head(nq.queue)]
  /\ nq' = Get(nq)
  /\ UNCHANGED <<cfgtorVars, sq>>

NodesRead ==
  /\ nw.pc = "read"
  /\ nw' = IF nw.key \in DOMAIN nodesStore
           THEN [pc |-> "update", key |-> nw.key, node |-> NodeOf(nw.key, nodesStore[nw.key])]
           ELSE [pc |-> "delete", key |-> nw.key]
  /\ UNCHANGED <<cfgtorVars, sq, nq>>

NodesUpdate ==
  /\ nw.pc = "update"
  /\ AddOrUpdateNode(nw.node)
  /\ nw' = [pc |-> "enqueue", key |-> nw.key, affected |-> AffectedServices(nw.node)]
  /\ UNCHANGED <<sq, nq>>

\* DeleteNode: nothing happens if there is no such node.
NodesDelete ==
  /\ nw.pc = "delete"
  /\ IF nw.key \in DOMAIN nodes THEN AddOrUpdateNode(InactiveCopy(nw.key)) ELSE UNCHANGED cfgtorVars
  /\ nw' = [pc |-> "enqueue", key |-> nw.key,
            affected |-> IF nw.key \in DOMAIN nodes THEN AffectedServices(InactiveCopy(nw.key)) ELSE {}]
  /\ UNCHANGED <<sq, nq>>

\* enqueuServiceObjects: each service is looked up, then enqueued.
NodesLookup(k) ==
  /\ nw.pc = "enqueue" /\ k \in nw.affected
  /\ nw' = IF k \in DOMAIN servicesStore THEN [pc |-> "add", key |-> nw.key, affected |-> nw.affected, svc |-> k]
           ELSE [pc |-> "enqueue", key |-> nw.key, affected |-> nw.affected \ {k}]
  /\ UNCHANGED <<cfgtorVars, sq, nq>>

NodesAdd ==
  /\ nw.pc = "add"
  /\ sq' = Add(sq, nw.svc)
  /\ nw' = [pc |-> "enqueue", key |-> nw.key, affected |-> nw.affected \ {nw.svc}]
  /\ UNCHANGED <<cfgtorVars, nq>>

\* A bug: what is affected is not enqueued.
NodesDone_Early ==
  /\ nw.pc = "enqueue"
  /\ nw' = Idle /\ nq' = Done(nq, nw.key)
  /\ UNCHANGED <<cfgtorVars, sq>>

NodesDone ==
  /\ nw.pc = "enqueue" /\ nw.affected = {}
  /\ nw' = Idle /\ nq' = Done(nq, nw.key)
  /\ UNCHANGED <<cfgtorVars, sq>>

NodesWorker ==
  /\ \/ NodesGet \/ NodesRead \/ NodesUpdate \/ NodesDelete
     \/ (\E k \in Keys : NodesLookup(k)) \/ NodesAdd \/ NodesDone
  /\ UNCHANGED <<stores, events, eq, sw, ew, started, panicked, missed>>

-----------------------------------------------------------------------------
Handlers == \/ \E k \in sevent : ServiceHandler(k)
            \/ \E k \in eevent : EndpointsHandler(k)
            \/ \E n \in nevent : NodeHandler(n)

Changes == \/ \E k \in Keys : ServiceChange(k) \/ EndpointsChange(k)
           \/ \E n \in NodeNames : NodeChange(n) \/ NodeDeletionMissed(n)

Next == /\ ~panicked
        /\ \/ Changes \/ Handlers \/ StartServices
           \/ ServicesWorker \/ EndpointsWorker \/ NodesWorker

(* Goroutines that can run do run; the cluster need not change. *)
Fairness ==
  /\ WF_vars(~panicked /\ StartServices)
  /\ WF_vars(~panicked /\ \E k \in sevent : ServiceHandler(k))
  /\ WF_vars(~panicked /\ \E k \in eevent : EndpointsHandler(k))
  /\ WF_vars(~panicked /\ \E n \in nevent : NodeHandler(n))
  /\ WF_vars(~panicked /\ ServicesWorker)
  /\ WF_vars(~panicked /\ EndpointsWorker)
  /\ WF_vars(~panicked /\ NodesWorker)

Safety == Init /\ [][Next]_vars
Spec == Safety /\ Fairness

-----------------------------------------------------------------------------
TypeOK ==
  /\ DOMAIN servicesStore \subseteq Keys /\ \A k \in DOMAIN servicesStore : servicesStore[k] \in Services
  /\ DOMAIN endpointStore \subseteq Keys /\ DOMAIN nodesStore \subseteq NodeNames
  /\ sevent \subseteq Keys /\ eevent \subseteq Keys /\ nevent \subseteq NodeNames
  /\ sq.dirty \subseteq Keys /\ sq.processing = IF sw.pc = "idle" THEN {} ELSE {sw.key}
  /\ eq.dirty \subseteq Keys /\ eq.processing = IF ew.pc = "idle" THEN {} ELSE {ew.key}
  /\ nq.dirty \subseteq NodeNames /\ nq.processing = IF nw.pc = "idle" THEN {} ELSE {nw.key}

\* No handler is to be called, no key is queued and every worker waits.
Quiet ==
  /\ started /\ ~panicked
  /\ sevent = {} /\ eevent = {} /\ nevent = {}
  /\ sq.dirty = {} /\ eq.dirty = {} /\ nq.dirty = {}
  /\ sw.pc = "idle" /\ ew.pc = "idle" /\ nw.pc = "idle"

Topo(k) == getServiceNetworkTopo(cfg, servicesStore, endpointStore, k)

\* The services lbex has to serve as things are.
Served == {k \in DOMAIN servicesStore : ~InKubeSystem(k) /\ Topo(k) # <<>>}
SpecNow(k) == SpecOf(servicesStore[k], Topo(k))

ToNodes(k, set) == /\ SpecNow(k).upstreamType = "node"
                   /\ ValidateNodeSet(servicesStore[k].ann.nodeSet) = set

HasConfig(k, config) == ConfigName(k) \in DOMAIN files /\ files[ConfigName(k)] = config

Hosts(k) == {a[1] : a \in UNION {u.servers : u \in files[ConfigName(k)].upstreams}}

Address(k, node) ==
  IF ValidateNodeAddressType(servicesStore[k].ann.nodeAddressType) = "internal"
  THEN node.internalIP ELSE node.externalIP

\* However changes of services and endpoints, their handlers, the two workers
\* and the start of the services interleave: when lbex comes to rest, a service
\* balanced to pods or to its cluster IP has the configuration that its present
\* object and its present endpoints call for.
ServedAsStored ==
  Quiet => \A k \in Served : SpecNow(k).upstreamType # "node" =>
             HasConfig(k, generateStreamNginxConfig(SpecNow(k), nodes))

\* A deleted service has no configuration left when lbex comes to rest, even if
\* it was deleted while a sync was about to write it.
DeletedIsGone == Quiet => \A k \in Keys \ DOMAIN servicesStore : ConfigName(k) \notin DOMAIN files

\* The candidate nodes are those of the cluster when lbex comes to rest: every
\* schedulable one, with its present addresses, and none that is gone, unless
\* its deletion was missed.
CandidatesFollowCluster ==
  Quiet => /\ DOMAIN nodes \subseteq DOMAIN nodesStore \cup missed
           /\ \A n \in DOMAIN nodesStore : ~nodesStore[n].unschedulable =>
                n \in DOMAIN nodes /\ nodes[n] = NodeOf(n, nodesStore[n])

\* A service with node set "all" is not sent to an address that no candidate
\* has when lbex comes to rest: what the nodes worker reports gets to the
\* services worker, also if that is writing the service at the time.
NoStaleNode ==
  Quiet => \A k \in Served : ToNodes(k, "all") =>
             \A h \in Hosts(k) : \E n \in DOMAIN nodes : h = Address(k, nodes[n])

\* The key that a worker has, or else none.
Held(w, none) == IF w.pc = "idle" THEN none ELSE w.key

ServicesPending == INSTANCE PendingSet WITH
  NoKey <- <<>>, pending <- sq.dirty, current <- Held(sw, <<>>), closed <- FALSE
EndpointsPending == INSTANCE PendingSet WITH
  NoKey <- <<>>, pending <- eq.dirty, current <- Held(ew, <<>>), closed <- FALSE
NodesPending == INSTANCE PendingSet WITH
  Keys <- NodeNames, NoKey <- NoNode, pending <- nq.dirty, current <- Held(nw, NoNode), closed <- FALSE

\* Whoever enqueues and whenever, each of the three queues is a set of pending
\* keys to those who use it: its worker takes one at a time and only what was
\* enqueued, and a key enqueued while the worker has it stays pending.
QueuesArePendingSets == ServicesPending!Safety /\ EndpointsPending!Safety /\ NodesPending!Safety

\* When nothing changes any more, lbex comes to rest.
ComesToRest == <>[](sevent = {} /\ eevent = {} /\ nevent = {}) => <>[](Quiet \/ panicked)

\* The configuration of a deleted service goes, if the service stays deleted.
DeletionTakesEffect ==
  \A k \in Keys : (k \notin DOMAIN servicesStore) ~>
    (ConfigName(k) \notin DOMAIN files \/ k \in DOMAIN servicesStore \/ panicked)

-----------------------------------------------------------------------------
(* What comments and documentation say, and the code does not do. *)

\* README, node set "host": "traffic is only directed to nodes that are actively
\* running a copy of the service's backend pod".  (A service that loses its
\* last pod keeps the file it has.)
OnlyRunningHosts ==
  Quiet => \A k \in DOMAIN servicesStore \cap DOMAIN endpointStore :
    Managed(cfg, servicesStore[k]) /\ ValidateUpstreamType(servicesStore[k].ann.upstreamType) = "node"
      /\ ValidateNodeSet(servicesStore[k].ann.nodeSet) = "host" /\ ConfigName(k) \in DOMAIN files
    => \A h \in Hosts(k) : \E t \in Range(Topo(k)) :
         t.node \in DOMAIN nodes /\ h = Address(k, nodes[t.node])
=============================================================================
