--------------------------- MODULE LbexServedProofs --------------------------
(***************************************************************************)
(* Proofs about Lbex, continued: the three workers bring the file of every *)
(* served service to what the stores call for, and what holds at rest.     *)
(***************************************************************************)
EXTENDS LbexProofs

-----------------------------------------------------------------------------
(* Served services: the workers *)

\* The endpoints worker enqueues a served service, or finds that another step
\* has made a sync of it due.
LEMMA EndpointsWorkerDue ==
  ASSUME Shape, EndpointsWorker, NEW k \in Served, EndpointsDue(k)
  PROVE  EndpointsDue(k)' \/ Due(k)'
<1>1. UNCHANGED <<servicesStore, endpointStore, eevent, sevent>>
  BY Zenon DEF EndpointsWorker, stores, events
<1>2. CASE EndpointsGet
  <2>1. ew'.pc = "read" /\ ew'.key = Head(eq.queue) /\ eq' = Get(eq) /\ ew.pc = "idle" /\ HasItem(eq)
    BY Zenon, <1>2 DEF EndpointsGet
  <2>2. eq'.dirty = eq.dirty \ {ew'.key}
    BY Zenon, <2>1, QueueGet DEF Shape, QueuesOK
  <2> QED BY Zenon, <1>1, <2>1, <2>2 DEF EndpointsDue
<1>3. CASE EndpointsDone
  <2>1. ew.pc = "done" /\ eq'.dirty = eq.dirty
    BY Zenon, <1>3, QueueDone DEF EndpointsDone, Shape, QueuesOK
  <2> QED BY Zenon, <1>1, <2>1 DEF EndpointsDue
<1>4. CASE eq' = eq /\ k \in eevent \cup eq.dirty
  BY Zenon, <1>1, <1>4 DEF EndpointsDue
<1>5. CASE EndpointsRead /\ ew.key = k
  BY Zenon, <1>5 DEF EndpointsRead, EndpointsDue
<1>6. CASE EndpointsLookup /\ ew.key = k
  <2>1. k \in DOMAIN servicesStore
    BY Zenon DEF Served
  <2> QED BY Zenon, <1>6, <2>1 DEF EndpointsLookup, EndpointsDue
<1>7. CASE EndpointsAdd /\ ew.key = k
  <2>1. ew.pc = "add"
    BY Zenon, <1>7 DEF EndpointsAdd
  <2>2. sq'.dirty = sq.dirty \cup {k}
    BY ZenonT(60), <1>7, <2>1, HeldKey, QueueAdd DEF EndpointsAdd, Shape, QueuesOK
  <2> QED BY Zenon, <2>2 DEF Due
<1>8. CASE EndpointsTopo /\ ew.key = k
  <2>1. /\ Balanced(cfg, servicesStore, k)
        /\ Len(servicesStore[k].ports) > 0
    BY ZenonT(30), ServedHasPorts
  <2>2. /\ ew'.pc = "ports" /\ ew'.key = k
        /\ ew'.ports = servicesStore[k].ports /\ ew'.endpoints = <<>>
    BY Zenon, <1>8, <2>1 DEF EndpointsTopo
  <2>3. <<>> \in Seq(Range(<<>>)) /\ Len(<<>>) = 0 /\ 1..0 = {}
    OBVIOUS
  <2>4. ReadsCurrent(ew)'
    BY ZenonT(30), <1>1, <2>1, <2>2, <2>3 DEF ReadsCurrent
  <2> QED BY Zenon, <2>2, <2>4 DEF EndpointsDue
<1>9. CASE EndpointsPort /\ ew.key = k /\ ReadsCurrent(ew)
  <2> DEFINE e == WithNextPort(ew)
  <2>1. /\ e \in Seq(Range(e)) /\ Len(e) \in Nat /\ Len(ew.ports) \in Nat
        /\ \A i \in 1..Len(e) : e[i] = getEndpoints(getServiceEndpoints(endpointStore, k), ew.ports[i])
        /\ ~(Len(e) < Len(ew.ports)) => SortedTopo(ew.ports, e) = Topo(k)
    BY Zenon, <1>9, NextPort
  <2>2. ew' = IF Len(e) < Len(ew.ports)
              THEN [pc |-> "ports", key |-> ew.key, ports |-> ew.ports, endpoints |-> e]
              ELSE [pc |-> IF SortedTopo(ew.ports, e) = <<>> THEN "done" ELSE "enqueue", key |-> ew.key]
    BY Zenon, <1>9 DEF EndpointsPort
  <2> HIDE DEF e
  <2>3. CASE Len(e) < Len(ew.ports)
    <3>1. ew'.pc = "ports" /\ ew'.key = k /\ ew'.ports = ew.ports /\ ew'.endpoints = e
      BY Zenon, <1>9, <2>2, <2>3
    <3>2. ew.ports = servicesStore[k].ports
      BY Zenon, <1>9 DEF ReadsCurrent
    <3>3. ReadsCurrent(ew)'
      BY ZenonT(60), <1>1, <2>1, <2>3, <3>1, <3>2 DEF ReadsCurrent
    <3> QED BY Zenon, <3>1, <3>3 DEF EndpointsDue
  <2>4. CASE ~(Len(e) < Len(ew.ports))
    <3>1. SortedTopo(ew.ports, e) # <<>>
      BY Zenon, <2>1, <2>4 DEF Served
    <3>2. ew'.pc = "enqueue" /\ ew'.key = k
      BY Zenon, <1>9, <2>2, <2>4, <3>1
    <3> QED BY Zenon, <3>2 DEF EndpointsDue
  <2> QED BY Zenon, <2>3, <2>4
<1> QED
  BY ZenonT(60), <1>2, <1>3, <1>4, <1>5, <1>6, <1>7, <1>8, <1>9
     DEF EndpointsWorker, EndpointsDue, EndpointsRead, EndpointsTopo, EndpointsPort, EndpointsLookup,
         EndpointsAdd

\* AddOrUpdateNode: a file that the change concerns is reported.
LEMMA NodeReported ==
  ASSUME Shape, NEW k \in Served, Current(k), SameObjects(k),
         NEW n, NEW node, IsNode(n, node), AddOrUpdateNode(node), k \notin AffectedServices(node)
  PROVE  Current(k)'
<1>1. k \in Keys
  BY ZenonT(30), ServedHasPorts DEF SyncedKeys
<1>2. UNCHANGED <<serviceUpstreamNodes, files>>
  BY Zenon DEF AddOrUpdateNode
<1>3. SpecNow(k)' = SpecNow(k)
  BY Zenon, SameSpec
<1>4. ASSUME SpecNow(k).upstreamType # "node"
      PROVE  HasConfig(k, generateStreamNginxConfig(SpecNow(k), nodes))'
  <2>1. SpecNow(k).upstreamType \in {"pod", "cluster-ip"}
    BY Zenon, <1>4 DEF SpecNow, SpecOf, ValidateUpstreamType
  <2>2. generateStreamNginxConfig(SpecNow(k), nodes) = generateStreamNginxConfig(SpecNow(k), nodes')
    BY Zenon, <2>1, NodesDoNotMatter
  <2>3. HasConfig(k, generateStreamNginxConfig(SpecNow(k), nodes))
    BY Zenon, <1>4 DEF Current
  <2> QED BY Zenon, <1>2, <1>3, <2>2, <2>3 DEF HasConfig
<1>5. ToNodes(k, "all")' <=> ToNodes(k, "all")
  BY Zenon, <1>3 DEF SameObjects, ToNodes
<1>6. HostsRecorded(k) => HostsRecorded(k)'
  BY Zenon, <1>2 DEF HostsRecorded, Hosts, Address, SameObjects
<1>7. ASSUME RecordedCurrent(k), NEW m \in serviceUpstreamNodes[k]
      PROVE  /\ m.name \in DOMAIN nodes'
             /\ nodes'[m.name].internalIP = m.internalIP
             /\ nodes'[m.name].externalIP = m.externalIP
  <2>1. /\ m.name \in DOMAIN nodes
        /\ nodes[m.name].internalIP = m.internalIP
        /\ nodes[m.name].externalIP = m.externalIP
    BY Zenon, <1>7 DEF RecordedCurrent
  <2>2. CASE m.name # node.name
    BY Zenon, <2>1, <2>2 DEF AddOrUpdateNode
  <2>3. CASE m.name = node.name
    <3>1. node.active
      BY Zenon, <1>1, <1>7, <2>1, <2>3 DEF AffectedServices, serviceListByNodeName
    <3>2. node.internalIP = m.internalIP /\ node.externalIP = m.externalIP
      BY ZenonT(60), <1>1, <1>7, <2>1, <2>3, <3>1 DEF AffectedServices, serviceListByNodeAddress
    <3> QED BY Zenon, <2>1, <2>3, <3>1, <3>2 DEF AddOrUpdateNode
  <2> QED BY Zenon, <2>2, <2>3
<1>8. RecordedCurrent(k) => RecordedCurrent(k)'
  BY Zenon, <1>2, <1>7 DEF RecordedCurrent
<1>9. ConfigName(k) \in DOMAIN files'
  BY Zenon, <1>2 DEF Current
<1> QED BY ZenonT(60), <1>3, <1>4, <1>5, <1>6, <1>8, <1>9 DEF Current

\* The nodes worker: what it reports it enqueues, and what it does not report
\* is still as it has to be.
LEMMA NodesWorkerServed ==
  ASSUME Shape, NodesWorker, NEW k \in Served, Accounted(k)
  PROVE  Accounted(k)'
<1>1. UNCHANGED <<servicesStore, endpointStore, eevent, eq, ew, sw>>
  BY Zenon DEF NodesWorker, stores, events
<1>2. SameObjects(k)
  BY Zenon, <1>1, ServedHasPorts DEF SameObjects
<1>3. Due(k) => Due(k)'
  BY Zenon, SyncsStayDue DEF OtherStep
<1>4. CASE Due(k)
  BY Zenon, <1>3, <1>4 DEF Accounted
<1>5. CASE EndpointsDue(k)
  BY Zenon, <1>1, <1>2, <1>5, EndpointsDueKept DEF Accounted
<1>6. CASE SyncFresh(k)
  BY Zenon, <1>1, <1>2, <1>6, SyncFreshKept DEF Accounted
<1>7. CASE NodesDue(k)
  <2>1. k \in DOMAIN servicesStore
    BY Zenon, ServedHasPorts
  <2>2. CASE NodesAdd
    <3>1. CASE k = nw.svc
      <4>1. QueueOK(sq, sw, SyncedKeys) /\ k \in SyncedKeys /\ sq' = Add(sq, k)
        BY Zenon, <2>2, <3>1, ServedHasPorts DEF NodesAdd, Shape, QueuesOK
      <4>2. sq'.dirty = sq.dirty \cup {k}
        BY ZenonT(60), <4>1, QueueAdd
      <4> QED BY Zenon, <4>2 DEF Due, Accounted
    <3>2. CASE k # nw.svc
      <4>1. NodesDue(k)'
        BY Zenon, <1>7, <2>2, <3>2 DEF NodesAdd, NodesDue
      <4> QED BY Zenon, <4>1 DEF Accounted
    <3> QED BY Zenon, <3>1, <3>2
  <2>3. ASSUME NEW j, NodesLookup(j) PROVE Accounted(k)'
    <3>1. NodesDue(k)'
      BY Zenon, <1>7, <2>1, <2>3 DEF NodesLookup, NodesDue
    <3> QED BY Zenon, <3>1 DEF Accounted
  <2>4. NodesAdd \/ \E j : NodesLookup(j)
    BY Zenon, <1>7 DEF NodesDue, NodesWorker, NodesGet, NodesRead, NodesUpdate, NodesDelete, NodesDone
  <2> QED BY Zenon, <2>2, <2>3, <2>4
<1>8. CASE Current(k) /\ ~Syncing(k)
  <2>1. ~Syncing(k)'
    BY Zenon, <1>1, <1>8 DEF Syncing
  <2>2. CASE UNCHANGED cfgtorVars
    <3>1. Current(k)'
      BY Zenon, <1>2, <1>8, <2>2, CurrentKept DEF cfgtorVars, Current
    <3> QED BY Zenon, <2>1, <3>1 DEF Accounted
  <2>3. ASSUME NEW node, AddOrUpdateNode(node), \E n : IsNode(n, node),
               nw'.pc = "enqueue", nw'.affected = AffectedServices(node)
        PROVE  Accounted(k)'
    <3>1. CASE k \in AffectedServices(node)
      <4>1. NodesDue(k)'
        BY ZenonT(60), <2>3, <3>1 DEF NodesDue
      <4> QED BY Zenon, <4>1 DEF Accounted
    <3>2. CASE k \notin AffectedServices(node)
      <4>1. Current(k)'
        BY ZenonT(60), <1>2, <1>8, <2>3, <3>2, NodeReported
      <4> QED BY Zenon, <2>1, <4>1 DEF Accounted
    <3> QED BY Zenon, <3>1, <3>2
  <2>4. CASE NodesUpdate
    <3>1. AddOrUpdateNode(nw.node) /\ IsNode(nw.key, nw.node)
            /\ nw'.pc = "enqueue" /\ nw'.affected = AffectedServices(nw.node)
      BY Zenon, <2>4 DEF NodesUpdate, Shape, WorkersOK
    <3> QED BY Zenon, <3>1, <2>3
  <2>5. CASE NodesDelete /\ nw.key \in DOMAIN nodes
    <3>1. IsNode(nw.key, InactiveCopy(nw.key))
      BY Zenon, <2>5, InactiveNode DEF Shape, CfgtorOK
    <3>2. AddOrUpdateNode(InactiveCopy(nw.key))
            /\ nw'.pc = "enqueue" /\ nw'.affected = AffectedServices(InactiveCopy(nw.key))
      BY Zenon, <2>5 DEF NodesDelete
    <3> QED BY Zenon, <3>1, <3>2, <2>3
  <2> QED
    BY Zenon, <2>2, <2>4, <2>5 DEF NodesWorker, NodesGet, NodesRead, NodesDelete, NodesLookup, NodesAdd, NodesDone
<1> QED BY Zenon, <1>4, <1>5, <1>6, <1>7, <1>8 DEF Accounted

\* AddOrUpdateService with what is there now leaves the file as it has to be.
LEMMA WriteCurrent ==
  ASSUME Shape, NEW k \in Served, SameObjects(k), nodes' = nodes,
         AddOrUpdateService(SpecNow(k))
  PROVE  Current(k)'
<1> DEFINE spec == SpecNow(k)
<1>1. /\ spec.key = k /\ spec.config = ConfigName(k) /\ spec.topology = Topo(k)
      /\ spec.svc = servicesStore[k] /\ Topo(k) # <<>> /\ k \in Keys
  BY ZenonT(30), ServedHasPorts DEF SpecNow, SpecOf, Shape, StoresOK, SyncedKeys
<1>2. SpecNow(k)' = spec
  BY Zenon, SameSpec
<1> HIDE DEF spec
<1>3. /\ ConfigName(k) \in DOMAIN files'
      /\ files'[ConfigName(k)] = generateStreamNginxConfig(spec, nodes)
  BY Zenon, <1>1 DEF AddOrUpdateService, WriteFile, spec
<1>4. HasConfig(k, generateStreamNginxConfig(SpecNow(k), nodes))'
  BY Zenon, <1>2, <1>3 DEF HasConfig
<1>5. ASSUME ToNodes(k, "all")'
      PROVE  HostsRecorded(k)' /\ RecordedCurrent(k)'
  <2>1. spec.upstreamType = "node" /\ ValidateNodeSet(spec.svc.ann.nodeSet) = "all"
    BY Zenon, <1>1, <1>2, <1>5 DEF ToNodes, SameObjects
  <2>2. RecordedNodes(spec) = {nodes[n] : n \in DOMAIN nodes}
    BY Zenon, <1>1, <2>1 DEF RecordedNodes
  <2>3. serviceUpstreamNodes'[k] = {nodes[n] : n \in DOMAIN nodes}
    BY Zenon, <1>1, <2>2 DEF AddOrUpdateService, spec, Shape, CfgtorOK
  <2>4. \A n \in DOMAIN nodes : nodes[n].name = n
    BY Zenon DEF Shape, CfgtorOK, IsNode
  <2>5. RecordedCurrent(k)'
    BY Zenon, <2>3, <2>4 DEF RecordedCurrent
  <2>6. ASSUME NEW h \in Hosts(k)'
        PROVE  \E n \in serviceUpstreamNodes'[k] : h = Address(k, n)'
    <3>1. PICK u \in generateStreamNginxConfig(spec, nodes).upstreams : \E a \in u.servers : h = a[1]
      BY Zenon, <1>3, <2>6 DEF Hosts
    <3>2. PICK a \in u.servers : h = a[1]
      BY Zenon, <3>1
    <3>3. PICK n \in DOMAIN nodes :
            h = IF ValidateNodeAddressType(spec.svc.ann.nodeAddressType) = "internal"
                THEN nodes[n].internalIP ELSE nodes[n].externalIP
      <4>1. \E n \in DOMAIN nodes :
              a[1] = IF ValidateNodeAddressType(spec.svc.ann.nodeAddressType) = "internal"
                     THEN nodes[n].internalIP ELSE nodes[n].externalIP
        BY <2>1, AllHosts, SMTT(30)
      <4> QED BY <3>2, <4>1, SMTT(30)
    <3>4. h = Address(k, nodes[n])'
      BY Zenon, <1>1, <3>3 DEF Address, SameObjects
    <3>5. nodes[n] \in serviceUpstreamNodes'[k]
      BY Zenon, <2>3
    <3> QED BY Zenon, <3>4, <3>5
  <2>7. HostsRecorded(k)'
    BY Zenon, <2>6 DEF HostsRecorded
  <2> QED BY Zenon, <2>5, <2>7
<1> QED BY Zenon, <1>3, <1>4, <1>5 DEF Current

\* A sync that has read what is there now goes on to write it.
LEMMA SyncWrites ==
  ASSUME Shape, ServicesWorker, NEW k \in Served, SyncFresh(k)
  PROVE  SyncFresh(k)' \/ (Current(k)' /\ ~Syncing(k)')
<1>1. UNCHANGED <<servicesStore, endpointStore>> /\ sw.pc # "idle" /\ sw.key = k
  BY Zenon DEF ServicesWorker, stores, SyncFresh
<1>2. SameObjects(k)
  BY Zenon, <1>1, ServedHasPorts DEF SameObjects
<1>3. CASE ServicesRead
  <2>1. k \in DOMAIN servicesStore
    BY Zenon DEF Served
  <2> QED BY Zenon, <1>1, <1>3, <2>1 DEF ServicesRead, SyncFresh
<1>4. CASE ServicesTopo
  <2>1. Balanced(cfg, servicesStore, k) /\ Len(servicesStore[k].ports) > 0
    BY Zenon, ServedHasPorts
  <2>2. sw.svc = servicesStore[k]
    BY Zenon, <1>4 DEF ServicesTopo, SyncFresh
  <2>3. /\ sw'.pc = "ports" /\ sw'.key = k /\ sw'.svc = servicesStore[k]
        /\ sw'.ports = servicesStore[k].ports /\ sw'.endpoints = <<>>
    BY Zenon, <1>1, <1>4, <2>1, <2>2 DEF ServicesTopo
  <2>4. <<>> \in Seq(Range(<<>>)) /\ Len(<<>>) = 0 /\ 1..0 = {}
    OBVIOUS
  <2>5. ReadsCurrent(sw)'
    BY ZenonT(30), <1>1, <2>1, <2>3, <2>4 DEF ReadsCurrent
  <2> QED BY Zenon, <1>1, <2>3, <2>5 DEF SyncFresh
<1>5. CASE ServicesPort
  <2> DEFINE e == WithNextPort(sw)
  <2>1. sw.svc = servicesStore[k] /\ ReadsCurrent(sw)
    BY Zenon, <1>5 DEF ServicesPort, SyncFresh
  <2>2. /\ e \in Seq(Range(e)) /\ Len(e) \in Nat /\ Len(sw.ports) \in Nat
        /\ \A i \in 1..Len(e) : e[i] = getEndpoints(getServiceEndpoints(endpointStore, k), sw.ports[i])
        /\ ~(Len(e) < Len(sw.ports)) => SortedTopo(sw.ports, e) = Topo(k)
    BY Zenon, <1>1, <2>1, NextPort
  <2>3. sw' = IF Len(e) < Len(sw.ports) THEN
                [pc |-> "ports", key |-> sw.key, svc |-> sw.svc, ports |-> sw.ports, endpoints |-> e]
              ELSE IF SortedTopo(sw.ports, e) = <<>> THEN [pc |-> "done", key |-> sw.key]
              ELSE [pc |-> "write", key |-> sw.key, svc |-> sw.svc, topo |-> SortedTopo(sw.ports, e)]
    BY Zenon, <1>5 DEF ServicesPort
  <2> HIDE DEF e
  <2>4. CASE Len(e) < Len(sw.ports)
    <3>1. /\ sw'.pc = "ports" /\ sw'.key = k /\ sw'.svc = servicesStore[k]
          /\ sw'.ports = sw.ports /\ sw'.endpoints = e
      BY Zenon, <1>1, <2>1, <2>3, <2>4
    <3>2. sw.ports = servicesStore[k].ports
      BY Zenon, <1>1, <2>1 DEF ReadsCurrent
    <3>3. ReadsCurrent(sw)'
      BY Zenon, <1>1, <2>2, <2>4, <3>1, <3>2 DEF ReadsCurrent
    <3> QED BY ZenonT(60), <1>1, <3>1, <3>3 DEF SyncFresh
  <2>5. CASE ~(Len(e) < Len(sw.ports))
    <3>1. SortedTopo(sw.ports, e) = Topo(k) /\ Topo(k) # <<>>
      BY Zenon, <2>2, <2>5 DEF Served
    <3>2. sw'.pc = "write" /\ sw'.key = k /\ sw'.svc = servicesStore[k] /\ sw'.topo = Topo(k)
      BY ZenonT(60), <1>1, <2>1, <2>3, <2>5, <3>1
    <3>3. Topo(k)' = Topo(k)
      BY Zenon, <1>2, SameSpec
    <3> QED BY Zenon, <1>1, <3>2, <3>3 DEF SyncFresh
  <2> QED BY Zenon, <2>4, <2>5
<1>6. CASE ServicesWrite
  <2>1. SpecOf(sw.svc, sw.topo) = SpecNow(k)
    BY Zenon, <1>6 DEF ServicesWrite, SyncFresh, SpecNow
  <2>2. AddOrUpdateService(SpecNow(k)) /\ nodes' = nodes /\ sw'.pc = "done"
    BY Zenon, <1>6, <2>1 DEF ServicesWrite, AddOrUpdateService
  <2>3. Current(k)'
    BY Zenon, <1>2, <2>2, WriteCurrent
  <2> QED BY Zenon, <2>2, <2>3 DEF Syncing
<1> QED
  BY ZenonT(30), <1>1, <1>3, <1>4, <1>5, <1>6
     DEF ServicesWorker, ServicesGet, ServicesDelete, ServicesDone, SyncFresh

\* A sync of another service leaves the file alone.
LEMMA OtherSyncs ==
  ASSUME Shape, ServicesWorker, NEW k \in Served, Current(k), ~Syncing(k)
  PROVE  SyncFresh(k)' \/ (Current(k)' /\ ~Syncing(k)')
<1>1. UNCHANGED <<servicesStore, endpointStore>>
  BY Zenon DEF ServicesWorker, stores
<1>2. SameObjects(k) /\ k \in Keys /\ k \in DOMAIN servicesStore
  BY Zenon, <1>1, ServedHasPorts DEF SameObjects, SyncedKeys
<1>3. ConfigName(k) \in DOMAIN files
  BY Zenon DEF Current
<1>4. sw.pc # "idle" => sw.key \in Keys
  BY Zenon, HeldKey DEF Shape, QueuesOK, SyncedKeys
<1>5. CASE UNCHANGED cfgtorVars
  <2>1. Current(k)'
    BY Zenon, <1>2, <1>3, <1>5, CurrentKept DEF cfgtorVars
  <2>2. SyncFresh(k)' \/ ~Syncing(k)'
    <3>1. CASE ServicesRead
      <4>1. sw'.key = sw.key /\ (sw.key = k => sw'.pc = "topo" /\ sw'.svc = servicesStore[k])
        BY Zenon, <1>2, <3>1 DEF ServicesRead
      <4> QED BY Zenon, <1>1, <4>1 DEF SyncFresh, Syncing
    <3>2. CASE ServicesTopo \/ ServicesPort
      BY SMTT(30), <3>2 DEF ServicesTopo, ServicesPort, Syncing
    <3>3. CASE ServicesGet \/ ServicesWrite \/ ServicesDelete \/ ServicesDone
      BY SMTT(30), <3>3 DEF ServicesGet, ServicesWrite, ServicesDelete, ServicesDone, Idle, Syncing
    <3> QED BY Zenon, <3>1, <3>2, <3>3 DEF ServicesWorker
  <2> QED BY Zenon, <2>1, <2>2
<1>6. CASE ServicesWrite
  <2>1. sw.pc = "write" /\ sw.key # k /\ sw'.pc = "done" /\ AddOrUpdateService(SpecOf(sw.svc, sw.topo))
    BY Zenon, <1>6 DEF ServicesWrite, Syncing
  <2>2. KeyOf(sw.svc) = sw.key
    BY Zenon, <2>1 DEF Shape, WorkersOK
  <2>3. SpecOf(sw.svc, sw.topo).key = sw.key /\ SpecOf(sw.svc, sw.topo).config = ConfigName(sw.key)
    BY Zenon, <2>2 DEF SpecOf
  <2>4. ConfigName(sw.key) # ConfigName(k)
    BY Zenon, <1>2, <1>4, <2>1, ConfigNamesAssumption
  <2>5. /\ nodes' = nodes /\ serviceUpstreamNodes'[k] = serviceUpstreamNodes[k]
        /\ ConfigName(k) \in DOMAIN files' /\ files'[ConfigName(k)] = files[ConfigName(k)]
    BY ZenonT(30), <1>2, <1>3, <2>1, <2>3, <2>4 DEF AddOrUpdateService, WriteFile, Shape, CfgtorOK
  <2>6. Current(k)'
    BY Zenon, <1>2, <2>5, CurrentKept
  <2> QED BY Zenon, <2>1, <2>6 DEF Syncing
<1>7. CASE ServicesDelete
  <2>1. sw.pc = "delete" /\ sw.key # k /\ sw'.pc = "done" /\ DeleteConfiguration(ConfigName(sw.key))
    BY Zenon, <1>7 DEF ServicesDelete, Syncing
  <2>2. ConfigName(sw.key) # ConfigName(k) /\ ConfigName(sw.key) # k
    BY Zenon, <1>2, <1>4, <2>1, ConfigNamesAssumption
  <2>3. /\ nodes' = nodes /\ serviceUpstreamNodes'[k] = serviceUpstreamNodes[k]
        /\ ConfigName(k) \in DOMAIN files' /\ files'[ConfigName(k)] = files[ConfigName(k)]
    BY ZenonT(60), <1>2, <1>3, <2>1, <2>2 DEF DeleteConfiguration, RemoveFile
  <2>4. Current(k)'
    BY Zenon, <1>2, <2>3, CurrentKept
  <2> QED BY Zenon, <2>1, <2>4 DEF Syncing
<1> QED
  BY ZenonT(30), <1>5, <1>6, <1>7 DEF ServicesWorker, ServicesGet, ServicesRead, ServicesTopo, ServicesPort, ServicesDone

\* The services worker.
LEMMA ServicesWorkerServed ==
  ASSUME Shape, ServicesWorker, NEW k \in Served, Accounted(k)
  PROVE  Accounted(k)'
<1>1. UNCHANGED <<servicesStore, endpointStore, sevent, eevent, eq, ew, nw>>
  BY Zenon DEF ServicesWorker, stores, events
<1>2. SameObjects(k)
  BY Zenon, <1>1, ServedHasPorts DEF SameObjects
<1>3. CASE Due(k)
  <2>1. CASE ServicesGet
    <3>1. sw'.pc = "read" /\ sw'.key = Head(sq.queue) /\ sq' = Get(sq) /\ sw.pc = "idle" /\ HasItem(sq)
      BY Zenon, <2>1 DEF ServicesGet
    <3>2. sq'.dirty = sq.dirty \ {sw'.key}
      BY Zenon, <3>1, QueueGet DEF Shape, QueuesOK
    <3>3. Due(k)' \/ SyncFresh(k)'
      BY Zenon, <1>1, <1>3, <3>1, <3>2 DEF Due, SyncFresh
    <3> QED BY Zenon, <3>3 DEF Accounted
  <2>2. CASE ServicesDone
    <3>1. sq'.dirty = sq.dirty
      BY Zenon, <2>2, QueueDone DEF ServicesDone, Shape, QueuesOK
    <3>2. Due(k)'
      BY Zenon, <1>1, <1>3, <3>1 DEF Due
    <3> QED BY Zenon, <3>2 DEF Accounted
  <2>3. CASE sq' = sq
    <3>1. Due(k)'
      BY Zenon, <1>1, <1>3, <2>3 DEF Due
    <3> QED BY Zenon, <3>1 DEF Accounted
  <2> QED
    BY ZenonT(30), <2>1, <2>2, <2>3
       DEF ServicesWorker, ServicesRead, ServicesTopo, ServicesPort, ServicesWrite, ServicesDelete
<1>4. CASE EndpointsDue(k)
  BY ZenonT(60), <1>1, <1>2, <1>4, EndpointsDueKept DEF Accounted
<1>5. CASE NodesDue(k)
  <2>1. NodesDue(k)'
    BY Zenon, <1>1, <1>5 DEF NodesDue
  <2> QED BY Zenon, <2>1 DEF Accounted
<1>6. CASE SyncFresh(k)
  BY Zenon, <1>6, SyncWrites DEF Accounted
<1>7. CASE Current(k) /\ ~Syncing(k)
  BY ZenonT(60), <1>7, OtherSyncs DEF Accounted
<1> QED BY Zenon, <1>3, <1>4, <1>5, <1>6, <1>7 DEF Accounted

\* The endpoints worker.
LEMMA EndpointsWorkerServed ==
  ASSUME Shape, EndpointsWorker, NEW k \in Served, Accounted(k)
  PROVE  Accounted(k)'
<1>1. UNCHANGED <<servicesStore, endpointStore, sw, nw, nodes, serviceUpstreamNodes, files>>
  BY Zenon DEF EndpointsWorker, stores, cfgtorVars
<1>2. SameObjects(k)
  BY Zenon, <1>1, ServedHasPorts DEF SameObjects
<1>3. CASE Due(k)
  <2>1. Due(k)'
    BY Zenon, <1>3, SyncsStayDue DEF OtherStep
  <2> QED BY Zenon, <2>1 DEF Accounted
<1>4. CASE EndpointsDue(k)
  BY ZenonT(60), <1>4, EndpointsWorkerDue DEF Accounted
<1>5. CASE NodesDue(k)
  <2>1. NodesDue(k)'
    BY Zenon, <1>1, <1>5 DEF NodesDue
  <2> QED BY Zenon, <2>1 DEF Accounted
<1>6. CASE SyncFresh(k)
  BY Zenon, <1>1, <1>2, <1>6, SyncFreshKept DEF Accounted
<1>7. CASE Current(k) /\ ~Syncing(k)
  <2>1. ConfigName(k) \in DOMAIN files
    BY Zenon, <1>7 DEF Current
  <2>2. Current(k)'
    BY Zenon, <1>1, <1>2, <1>7, <2>1, CurrentKept
  <2>3. ~Syncing(k)'
    BY Zenon, <1>1, <1>7 DEF Syncing
  <2> QED BY Zenon, <2>2, <2>3 DEF Accounted
<1> QED BY Zenon, <1>3, <1>4, <1>5, <1>6, <1>7 DEF Accounted

-----------------------------------------------------------------------------
(* Served services: what happens around the workers *)

\* The informer of the services: the service that changes is to be synced.
LEMMA ServiceChangeServed ==
  ASSUME Shape, ServedAccounted, NEW j \in Keys, ServiceChange(j), NEW k \in Served'
  PROVE  Accounted(k)'
<1>1. /\ UNCHANGED <<endpointStore, sw, ew, nw, nodes, serviceUpstreamNodes, files, sq, eq, eevent>>
      /\ sevent = {} /\ sevent' = Handled(j)
  BY Zenon DEF ServiceChange, cfgtorVars, queues, workers
<1>2. CASE k = j
  <2>1. ~InKubeSystem(k)
    BY Zenon DEF Served
  <2>2. Due(k)'
    BY Zenon, <1>1, <1>2, <2>1 DEF Due, Handled
  <2> QED BY Zenon, <2>2 DEF Accounted
<1>3. CASE k # j
  <2>1. k \in DOMAIN servicesStore'
    BY Zenon DEF Served
  <2>2. k \in DOMAIN servicesStore /\ servicesStore'[k] = servicesStore[k]
    BY SMTT(30), <1>3, <2>1 DEF ServiceChange, Put, Drop
  <2>3. SameObjects(k)
    BY Zenon, <1>1, <2>1, <2>2 DEF SameObjects
  <2>4. Accounted(k)
    BY Zenon, <2>3, SameSpec DEF ServedAccounted
  <2>5. Due(k) => Due(k)'
    BY ZenonT(60), <1>1 DEF Due
  <2> QED BY ZenonT(60), <1>1, <2>3, <2>4, <2>5, Undisturbed
<1> QED BY Zenon, <1>2, <1>3

\* The informer of the endpoints: the service whose endpoints change is to be
\* enqueued by the endpoints worker.
LEMMA EndpointsChangeServed ==
  ASSUME Shape, ServedAccounted, NEW j \in Keys, EndpointsChange(j), NEW k \in Served'
  PROVE  Accounted(k)'
<1>1. /\ UNCHANGED <<servicesStore, sw, ew, nw, nodes, serviceUpstreamNodes, files, sq, eq, sevent>>
      /\ eevent = {} /\ eevent' = Handled(j)
  BY Zenon DEF EndpointsChange, cfgtorVars, queues, workers
<1>2. CASE k = j
  <2>1. ~InKubeSystem(k)
    BY Zenon DEF Served
  <2>2. EndpointsDue(k)'
    BY Zenon, <1>1, <1>2, <2>1 DEF EndpointsDue, Handled
  <2> QED BY Zenon, <2>2 DEF Accounted
<1>3. CASE k # j
  <2>1. k \in DOMAIN servicesStore'
    BY Zenon DEF Served
  <2>2. getServiceEndpoints(endpointStore', k) = getServiceEndpoints(endpointStore, k)
    <3>1. PICK state \in EndpointStates :
            endpointStore' = IF state = {} THEN Drop(endpointStore, j)
                             ELSE Put(endpointStore, j, CHOOSE subsets \in state : TRUE)
      BY ZenonT(30) DEF EndpointsChange
    <3>2. /\ k \in DOMAIN endpointStore' <=> k \in DOMAIN endpointStore
          /\ k \in DOMAIN endpointStore => endpointStore'[k] = endpointStore[k]
      BY Zenon, <1>3, <3>1 DEF Put, Drop
    <3> QED BY Zenon, <3>2 DEF getServiceEndpoints
  <2>3. SameObjects(k)
    BY ZenonT(60), <1>1, <2>1, <2>2 DEF SameObjects
  <2>4. Accounted(k)
    BY Zenon, <2>3, SameSpec DEF ServedAccounted
  <2>5. Due(k) => Due(k)'
    BY Zenon, <1>1 DEF Due
  <2> QED BY ZenonT(60), <1>1, <2>3, <2>4, <2>5, Undisturbed
<1> QED BY Zenon, <1>2, <1>3

\* The event handlers, the start of the services and changes of nodes.
LEMMA SurroundingsServed ==
  ASSUME Shape, ServedAccounted, NEW k \in Served',
         \/ StartServices \/ Handlers
         \/ \E n \in NodeNames : NodeChange(n) \/ NodeDeletionMissed(n)
  PROVE  Accounted(k)'
<1>1. UNCHANGED <<servicesStore, endpointStore, sw, ew, nw, nodes, serviceUpstreamNodes, files>>
  BY Zenon DEF StartServices, Handlers, ServiceHandler, EndpointsHandler, NodeHandler, NodeChange,
     NodeDeletionMissed, stores, workers, cfgtorVars
<1>2. SameObjects(k)
  BY Zenon, <1>1 DEF SameObjects, Served
<1>3. Accounted(k)
  BY Zenon, <1>2, SameSpec DEF ServedAccounted
<1>4. Due(k) => Due(k)'
  BY Zenon, SyncsStayDue DEF OtherStep
<1>5. k \in eevent \cup eq.dirty => k \in eevent' \cup eq'.dirty
  <2>1. ASSUME NEW j \in eevent, EndpointsHandler(j) PROVE eevent' \cup eq'.dirty = eevent \cup eq.dirty
    <3>1. j \in SyncedKeys /\ QueueOK(eq, ew, SyncedKeys)
      BY Zenon DEF Shape, StoresOK, QueuesOK
    <3>2. eq' = Add(eq, j) /\ eevent' = eevent \ {j}
      BY Zenon, <2>1 DEF EndpointsHandler
    <3>3. eq'.dirty = eq.dirty \cup {j}
      BY ZenonT(60), <3>1, <3>2, QueueAdd
    <3> QED BY Zenon, <3>2, <3>3
  <2>2. UNCHANGED <<eevent, eq>> \/ \E j \in eevent : EndpointsHandler(j)
    BY Zenon DEF StartServices, Handlers, ServiceHandler, NodeHandler, NodeChange, NodeDeletionMissed,
       events, queues
  <2> QED BY Zenon, <2>1, <2>2
<1> QED BY ZenonT(60), <1>1, <1>2, <1>3, <1>4, <1>5, Undisturbed

\* Every step keeps the served services accounted for.
LEMMA ServedAccountedStep ==
  ASSUME Shape, ServedAccounted, Next
  PROVE  ServedAccounted'
<1> SUFFICES ASSUME NEW k \in Served' PROVE Accounted(k)'
  BY Zenon DEF ServedAccounted
<1>1. CASE ServicesWorker \/ EndpointsWorker \/ NodesWorker
  <2>1. UNCHANGED <<servicesStore, endpointStore>>
    BY Zenon, <1>1 DEF ServicesWorker, EndpointsWorker, NodesWorker, stores
  <2>2. SameObjects(k)
    BY Zenon, <2>1 DEF SameObjects, Served
  <2>3. k \in Served /\ Accounted(k)
    BY Zenon, <2>2, SameSpec DEF ServedAccounted
  <2> QED BY ZenonT(60), <1>1, <2>3, ServicesWorkerServed, EndpointsWorkerServed, NodesWorkerServed
<1>2. CASE \E j \in Keys : ServiceChange(j) \/ EndpointsChange(j)
  BY Zenon, <1>2, ServiceChangeServed, EndpointsChangeServed
<1>3. CASE \/ StartServices \/ Handlers
           \/ \E n \in NodeNames : NodeChange(n) \/ NodeDeletionMissed(n)
  BY Zenon, <1>3, SurroundingsServed
<1> QED BY Zenon, <1>1, <1>2, <1>3 DEF Next, Changes

-----------------------------------------------------------------------------
(* The invariant and what follows from it at rest *)

\* Every step keeps the invariant.
LEMMA IInvStep == IInv /\ [Next]_vars => IInv'
<1> SUFFICES ASSUME IInv, [Next]_vars PROVE IInv'
  OBVIOUS
<1>1. Shape /\ ServedAccounted /\ DeletedAccounted /\ NodesAccounted
  BY Zenon DEF IInv
<1>2. Shape' /\ DeletedAccounted' /\ NodesAccounted'
  BY Zenon, <1>1, ShapeStep, DeletedAccountedStep, NodesAccountedStep
<1>3. CASE Next
  <2>1. ServedAccounted'
    BY Zenon, <1>1, <1>3, ServedAccountedStep
  <2> QED BY Zenon, <1>2, <2>1 DEF IInv
<1>4. CASE UNCHANGED vars
  <2>1. ASSUME NEW k \in Served' PROVE Accounted(k)'
    <3>1. /\ UNCHANGED <<servicesStore, endpointStore, sw, ew, nw, nodes, serviceUpstreamNodes, files>>
          /\ UNCHANGED <<sevent, eevent, sq, eq>>
      BY Zenon, <1>4 DEF vars, cfgtorVars, stores, events, queues, workers
    <3>2. SameObjects(k)
      BY Zenon, <3>1 DEF SameObjects, Served
    <3>3. Accounted(k)
      BY Zenon, <1>1, <3>2, SameSpec DEF ServedAccounted
    <3>4. Due(k) => Due(k)'
      BY Zenon, <3>1 DEF Due
    <3> QED BY ZenonT(60), <3>1, <3>2, <3>3, <3>4, Undisturbed
  <2> QED BY Zenon, <1>2, <2>1 DEF IInv, ServedAccounted
<1> QED BY Zenon, <1>3, <1>4

\* In every state, whatever does not fit the stores is on its way to be put
\* right by the three workers.
THEOREM Invariance == Safety => []IInv
<1>1. Init => IInv
  BY Zenon, InitIInv
<1>2. IInv /\ [Next]_vars => IInv'
  BY Zenon, IInvStep
<1> QED BY <1>1, <1>2, PTL DEF Safety

\* At rest nothing is on its way, so every served service has its file.
LEMMA AtRest ==
  ASSUME IInv, Quiet
  PROVE  \A k \in Served : Current(k)
<1> SUFFICES ASSUME NEW k \in Served PROVE Current(k)
  OBVIOUS
<1>1. Accounted(k)
  BY Zenon DEF IInv, ServedAccounted
<1> QED BY Zenon, <1>1 DEF Quiet, Accounted, Due, EndpointsDue, NodesDue, SyncFresh

\* When lbex comes to rest, a service balanced to pods or to its cluster IP has
\* the configuration its object and endpoints call for, whatever the services
\* and however informers, handlers and workers interleaved.
THEOREM ServedAsStoredHolds == Safety => []ServedAsStored
<1>1. IInv => ServedAsStored
  BY Zenon, AtRest DEF ServedAsStored, Current
<1> QED BY <1>1, Invariance, PTL

\* When lbex comes to rest, a deleted service has no configuration file left.
THEOREM DeletedIsGoneHolds == Safety => []DeletedIsGone
<1>1. IInv => DeletedIsGone
  BY Zenon DEF IInv, DeletedAccounted, GoingAway, Due, DeletedIsGone, Quiet
<1> QED BY <1>1, Invariance, PTL

\* When lbex comes to rest, its candidate nodes are those of the cluster.
THEOREM CandidatesFollowClusterHolds == Safety => []CandidatesFollowCluster
<1>1. ASSUME IInv, Quiet
      PROVE  /\ DOMAIN nodes \subseteq DOMAIN nodesStore \cup missed
             /\ \A n \in DOMAIN nodesStore : ~nodesStore[n].unschedulable =>
                  n \in DOMAIN nodes /\ nodes[n] = NodeOf(n, nodesStore[n])
  <2>1. ASSUME NEW n \in NodeNames \ missed PROVE NodeCurrent(n)
    <3>1. NodeAccounted(n)
      BY Zenon, <1>1 DEF IInv, NodesAccounted
    <3> QED BY Zenon, <1>1, <3>1 DEF NodeAccounted, NodeFresh, Quiet
  <2>2. DOMAIN nodes \subseteq NodeNames /\ DOMAIN nodesStore \subseteq NodeNames \ missed
    BY Zenon, <1>1 DEF IInv, Shape, CfgtorOK, StoresOK
  <2> QED BY Zenon, <2>1, <2>2 DEF NodeCurrent
<1>2. IInv => CandidatesFollowCluster
  BY ZenonT(60), <1>1 DEF CandidatesFollowCluster
<1> QED BY <1>2, Invariance, PTL

\* When lbex comes to rest, a service with node set "all" is sent to addresses
\* of present candidates only.
THEOREM NoStaleNodeHolds == Safety => []NoStaleNode
<1>1. ASSUME IInv, Quiet, NEW k \in Served, ToNodes(k, "all"), NEW h \in Hosts(k)
      PROVE  \E n \in DOMAIN nodes : h = Address(k, nodes[n])
  <2>1. HostsRecorded(k) /\ RecordedCurrent(k)
    BY Zenon, <1>1, AtRest DEF Current
  <2>2. PICK m \in serviceUpstreamNodes[k] : h = Address(k, m)
    BY Zenon, <1>1, <2>1 DEF HostsRecorded
  <2>3. /\ m.name \in DOMAIN nodes
        /\ nodes[m.name].internalIP = m.internalIP
        /\ nodes[m.name].externalIP = m.externalIP
    BY Zenon, <2>1 DEF RecordedCurrent
  <2>4. Address(k, nodes[m.name]) = Address(k, m)
    BY Zenon, <2>3 DEF Address
  <2> QED BY Zenon, <2>2, <2>3, <2>4
<1>2. IInv => NoStaleNode
  BY Zenon, <1>1 DEF NoStaleNode
<1> QED BY <1>2, Invariance, PTL
=============================================================================
