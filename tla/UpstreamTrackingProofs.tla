----------------------- MODULE UpstreamTrackingProofs ------------------------
(***************************************************************************)
(* Proofs about UpstreamTracking, for any nodes, services and addresses.   *)
(* AllSetFollowsNodes is not inductive: it says nothing of what the        *)
(* Configurator has recorded, and that is what a change of a node is looked*)
(* up in.  Tracked adds that the recorded nodes account for the file and   *)
(* are still as they were recorded.                                        *)
(***************************************************************************)
EXTENDS UpstreamTracking, SharedLemmas

HostsRecorded(k) ==
  \A h \in Hosts(k) : \E n \in serviceUpstreamNodes[k] : h = Address(applied[k], n)

RecordedCurrent(k) ==
  \A n \in serviceUpstreamNodes[k] :
    /\ n.name \in DOMAIN nodes
    /\ nodes[n.name].internalIP = n.internalIP
    /\ nodes[n.name].externalIP = n.externalIP

Tracked ==
  \A k \in DOMAIN applied :
    /\ applied[k].config \in DOMAIN files
    /\ ToNodes(applied[k], "all") /\ k \notin affected => HostsRecorded(k) /\ RecordedCurrent(k)

IInv == TypeOK /\ Tracked

-----------------------------------------------------------------------------
\* newLbExController starts with empty maps and no files.
LEMMA InitIInv == Init => IInv
<1>1. DOMAIN <<>> = {}
  OBVIOUS
<1> QED
  BY Zenon, <1>1 DEF Init, CfgtorInit, IInv, TypeOK, Tracked

\* AddOrUpdateNode preserves the invariant, for nodes of the cluster and for
\* the inactive copies DeleteNode makes.
LEMMA SyncNodeIInv ==
  ASSUME IInv, NEW node \in NodeType, SyncNode(node)
  PROVE  IInv'
<1> USE DEF IInv
<1>1. TypeOK'
  <2>1. \A n \in DOMAIN nodes' : nodes'[n] \in NodeType /\ nodes'[n].name = n
    BY Zenon DEF SyncNode, AddOrUpdateNode, TypeOK
  <2>2. AffectedServices(node) \subseteq Keys
    BY Zenon DEF AffectedServices, serviceListByNodeAddress, serviceListByNodeName
  <2> QED
    BY Zenon, <2>1, <2>2 DEF SyncNode, AddOrUpdateNode, TypeOK
<1>2. Tracked'
  <2> SUFFICES ASSUME NEW k \in DOMAIN applied, ToNodes(applied[k], "all"), k \notin affected'
               PROVE  HostsRecorded(k)' /\ RecordedCurrent(k)'
    BY Zenon DEF Tracked, SyncNode, AddOrUpdateNode
  <2>1. k \notin affected /\ k \notin AffectedServices(node) /\ k \in Keys
    BY Zenon DEF SyncNode, TypeOK
  <2>2. HostsRecorded(k)'
    BY ZenonT(60), <2>1 DEF Tracked, HostsRecorded, Hosts, SyncNode, AddOrUpdateNode
  <2>3. ASSUME NEW n \in serviceUpstreamNodes[k]
        PROVE  /\ n.name \in DOMAIN nodes'
               /\ nodes'[n.name].internalIP = n.internalIP
               /\ nodes'[n.name].externalIP = n.externalIP
    <3>1. /\ n.name \in DOMAIN nodes
          /\ nodes[n.name].internalIP = n.internalIP
          /\ nodes[n.name].externalIP = n.externalIP
      BY Zenon, <2>1 DEF Tracked, RecordedCurrent
    <3>2. CASE n.name # node.name
      BY Zenon, <3>1, <3>2 DEF SyncNode, AddOrUpdateNode
    <3>3. CASE n.name = node.name
      <4>1. node.active
        BY Zenon, <3>1, <3>3, <2>1 DEF AffectedServices, serviceListByNodeName
      <4>2. node.internalIP = n.internalIP /\ node.externalIP = n.externalIP
        BY Zenon, <3>1, <3>3, <4>1, <2>1 DEF AffectedServices, serviceListByNodeAddress
      <4> QED
        BY Zenon, <3>1, <3>3, <4>1, <4>2 DEF SyncNode, AddOrUpdateNode
    <3> QED
      BY Zenon, <3>2, <3>3
  <2> QED
    BY Zenon, <2>2, <2>3 DEF RecordedCurrent, SyncNode, AddOrUpdateNode
<1> QED
  BY Zenon, <1>1, <1>2

\* What AddOrUpdateService leaves recorded of a service with node set "all".
LEMMA AllRecorded ==
  ASSUME NEW spec \in Specs, ToNodes(spec, "all")
  PROVE  RecordedNodes(spec) = {nodes[n] : n \in DOMAIN nodes}
BY Zenon, SpecsAssumption DEF RecordedNodes, ToNodes

\* AddOrUpdateService: the service it writes is accounted for by all nodes, and
\* the files and records of the others stay as they are.
LEMMA SyncServiceIInv ==
  ASSUME IInv, NEW spec \in Specs, SyncService(spec)
  PROVE  IInv'
<1> USE DEF IInv
<1>1. spec.key \in Keys /\ spec.key \in DOMAIN applied'
  BY Zenon, SpecsAssumption DEF SyncService
<1>2. TypeOK'
  <2>1. /\ nodes' = nodes
        /\ DOMAIN serviceUpstreamNodes' = Keys /\ DOMAIN serviceUpstreamTarget' = Keys
        /\ reloadErr' \in {"", "test", "signal"}
    BY Zenon DEF SyncService, AddOrUpdateService, Reload, TypeOK
  <2>2. DOMAIN applied' \subseteq Keys /\ \A k \in DOMAIN applied' : applied'[k] \in Specs /\ applied'[k].key = k
    BY Zenon, <1>1 DEF SyncService, TypeOK
  <2> QED
    BY Zenon, <2>1, <2>2 DEF TypeOK, SyncService
<1>3. Tracked'
  <2> SUFFICES ASSUME NEW k \in DOMAIN applied'
               PROVE  /\ applied'[k].config \in DOMAIN files'
                      /\ ToNodes(applied'[k], "all") /\ k \notin affected'
                           => HostsRecorded(k)' /\ RecordedCurrent(k)'
    BY Zenon DEF Tracked
  <2>1. CASE k = spec.key
    <3>1. applied'[k] = spec /\ files'[spec.config] = generateStreamNginxConfig(spec, nodes)
            /\ spec.config \in DOMAIN files'
      BY Zenon, <2>1 DEF SyncService, AddOrUpdateService, WriteFile
    <3>2. ASSUME ToNodes(spec, "all")
          PROVE  HostsRecorded(k)' /\ RecordedCurrent(k)'
      <4>1. serviceUpstreamNodes'[k] = {nodes[n] : n \in DOMAIN nodes} /\ nodes' = nodes
        BY Zenon, <1>1, <2>1, <3>2, AllRecorded DEF SyncService, AddOrUpdateService, TypeOK
      <4>2. RecordedCurrent(k)'
        <5>1. ASSUME NEW n \in DOMAIN nodes
              PROVE  nodes[n].name = n
          BY Zenon, <5>1 DEF TypeOK
        <5> QED
          BY Zenon, <4>1, <5>1 DEF RecordedCurrent
      <4>3. ASSUME NEW h \in Hosts(k)'
            PROVE  \E n \in serviceUpstreamNodes'[k] : h = Address(spec, n)
        <5>1. PICK u \in generateStreamNginxConfig(spec, nodes).upstreams :
                \E a \in u.servers : h = a[1]
          BY Zenon, <3>1, <4>3 DEF Hosts
        <5>2. \E n \in DOMAIN nodes : h = Address(spec, nodes[n])
          BY SMTT(30), <5>1, <3>2, AllHosts DEF ToNodes, Address
        <5> QED
          BY Zenon, <5>1, <5>2, <4>1
      <4> QED
        BY Zenon, <3>1, <4>2, <4>3 DEF HostsRecorded
    <3> QED
      BY Zenon, <3>1, <3>2
  <2>2. CASE k # spec.key
    <3>1. /\ k \in DOMAIN applied /\ applied'[k] = applied[k]
          /\ applied[k] \in Specs /\ applied[k].key = k
      BY Zenon, <2>2 DEF SyncService, TypeOK
    <3>2. applied[k].config # spec.config
      BY Zenon, <3>1, <2>2, DistinctConfigNames
    <3>3. /\ applied[k].config \in DOMAIN files'
          /\ files'[applied[k].config] = files[applied[k].config]
      BY Zenon, <3>1, <3>2 DEF SyncService, AddOrUpdateService, WriteFile, Tracked
    <3>4. serviceUpstreamNodes'[k] = serviceUpstreamNodes[k] /\ nodes' = nodes
      BY Zenon, <3>1, <2>2 DEF SyncService, AddOrUpdateService, TypeOK
    <3>5. k \notin affected' => k \notin affected
      BY Zenon, <2>2 DEF SyncService
    <3>6. Hosts(k)' = Hosts(k)
      BY Zenon, <3>1, <3>3 DEF Hosts
    <3> QED
      BY SMTT(30), <3>1, <3>3, <3>4, <3>5, <3>6 DEF Tracked, HostsRecorded, RecordedCurrent
  <2> QED
    BY Zenon, <2>1, <2>2
<1> QED
  BY Zenon, <1>2, <1>3

\* DeleteConfiguration takes nothing from the services that stay.
LEMMA DeleteServiceIInv ==
  ASSUME IInv, NEW key, DeleteService(key)
  PROVE  IInv'
<1> USE DEF IInv
<1>1. TypeOK'
  <2>1. /\ nodes' = nodes
        /\ DOMAIN serviceUpstreamNodes' = Keys /\ DOMAIN serviceUpstreamTarget' = Keys
        /\ reloadErr' \in {"", "test", "signal"}
    BY Zenon DEF DeleteService, DeleteConfiguration, Reload, TypeOK
  <2> QED
    BY Zenon, <2>1 DEF DeleteService, TypeOK
<1>2. Tracked'
  <2> SUFFICES ASSUME NEW k \in DOMAIN applied'
               PROVE  /\ applied'[k].config \in DOMAIN files'
                      /\ ToNodes(applied'[k], "all") /\ k \notin affected'
                           => HostsRecorded(k)' /\ RecordedCurrent(k)'
    BY Zenon DEF Tracked
  <2>1. /\ k \in DOMAIN applied /\ k # key /\ applied'[k] = applied[k]
        /\ applied[k] \in Specs /\ applied[k].key = k /\ k \in Keys
        /\ key \in DOMAIN applied /\ applied[key] \in Specs /\ applied[key].key = key
    BY Zenon DEF DeleteService, TypeOK
  <2>2. applied[k].config # applied[key].config /\ k # applied[key].config
    BY Zenon, <2>1, DistinctConfigNames, SpecsAssumption
  <2>3. /\ applied[k].config \in DOMAIN files'
        /\ files'[applied[k].config] = files[applied[k].config]
    BY Zenon, <2>1, <2>2 DEF DeleteService, DeleteConfiguration, RemoveFile, Tracked
  <2>4. serviceUpstreamNodes'[k] = serviceUpstreamNodes[k] /\ nodes' = nodes
    BY Zenon, <2>1, <2>2 DEF DeleteService, DeleteConfiguration
  <2>5. k \notin affected' => k \notin affected
    BY Zenon, <2>1 DEF DeleteService
  <2>6. Hosts(k)' = Hosts(k)
    BY Zenon, <2>1, <2>3 DEF Hosts
  <2> QED
    BY SMTT(30), <2>1, <2>3, <2>4, <2>5, <2>6 DEF Tracked, HostsRecorded, RecordedCurrent
<1> QED
  BY Zenon, <1>1, <1>2

\* Every step preserves the invariant.
LEMMA NextIInv == IInv /\ [Next]_vars => IInv'
<1> SUFFICES ASSUME IInv, [Next]_vars
             PROVE  IInv'
  OBVIOUS
<1>1. ASSUME NEW node \in Nodes, SyncNode(node)
      PROVE  IInv'
  BY Zenon, <1>1, SyncNodeIInv, NodesAssumption
<1>2. ASSUME NEW node \in Nodes, DeleteNode(node.name)
      PROVE  IInv'
  <2>1. nodes[node.name] \in NodeType
    BY Zenon, <1>2 DEF IInv, TypeOK, DeleteNode
  <2>2. InactiveCopy(node.name) \in NodeType
    BY Zenon, <2>1 DEF InactiveCopy, NodeType
  <2> QED
    BY Zenon, <1>2, <2>2, SyncNodeIInv DEF DeleteNode
<1>3. ASSUME NEW spec \in Specs, SyncService(spec)
      PROVE  IInv'
  BY Zenon, <1>3, SyncServiceIInv
<1>4. ASSUME NEW spec \in Specs, DeleteService(spec.key)
      PROVE  IInv'
  BY Zenon, <1>4, DeleteServiceIInv
<1>5. CASE UNCHANGED vars
  <2>1. TypeOK'
    BY Zenon, <1>5 DEF vars, cfgtorVars, IInv, TypeOK
  <2>2. Tracked'
    BY SMTT(30), <1>5 DEF vars, cfgtorVars, IInv, Tracked, HostsRecorded, RecordedCurrent, Hosts
  <2> QED
    BY Zenon, <2>1, <2>2 DEF IInv
<1> QED
  BY Zenon, <1>1, <1>2, <1>3, <1>4, <1>5 DEF Next

\* The inductive invariant holds in every reachable state.
LEMMA IInvHolds == Spec => []IInv
BY InitIInv, NextIInv, PTL DEF Spec

\* The Configurator's state keeps its shape: a node is stored under its own
\* name, and what a service was written with is kept under its own key.
THEOREM TypeCorrect == Spec => []TypeOK
<1>1. IInv => TypeOK
  BY Zenon DEF IInv
<1> QED
  BY <1>1, IInvHolds, PTL

\* Whatever the nodes and services, and in whatever order AddOrUpdateNode,
\* DeleteNode, AddOrUpdateService and DeleteConfiguration are called: a file
\* for node set "all" with an address no candidate has is always reported.
THEOREM StaleFilesAreReported == Spec => []AllSetFollowsNodes
<1>1. IInv => AllSetFollowsNodes
  <2> SUFFICES ASSUME IInv, NEW k \in DOMAIN applied, ToNodes(applied[k], "all"), k \notin affected,
                      NEW h \in Hosts(k)
               PROVE  \E n \in DOMAIN nodes : h = Address(applied[k], nodes[n])
    BY Zenon DEF AllSetFollowsNodes
  <2>1. PICK n \in serviceUpstreamNodes[k] : h = Address(applied[k], n)
    BY Zenon DEF IInv, Tracked, HostsRecorded
  <2>2. /\ n.name \in DOMAIN nodes
        /\ nodes[n.name].internalIP = n.internalIP
        /\ nodes[n.name].externalIP = n.externalIP
    BY Zenon, <2>1 DEF IInv, Tracked, RecordedCurrent
  <2> QED
    BY Zenon, <2>1, <2>2 DEF Address
<1> QED
  BY <1>1, IInvHolds, PTL

\* Whatever was written, rejected or deleted before, NGINX runs what is on disk
\* as soon as that passes its test and the reload gets through.
THEOREM ReloadCatchesUp == Spec => []RunningIsOnDisk
<1>1. Init => RunningIsOnDisk
  BY Zenon DEF Init, CfgtorInit, RunningIsOnDisk
<1>2. RunningIsOnDisk /\ [Next]_vars => RunningIsOnDisk'
  <2> SUFFICES ASSUME RunningIsOnDisk, [Next]_vars
               PROVE  RunningIsOnDisk'
    OBVIOUS
  <2>1. ASSUME Reload(files')
        PROVE  RunningIsOnDisk'
    BY Zenon, <2>1 DEF Reload, RunningIsOnDisk
  <2>2. ASSUME UNCHANGED <<files, running, reloadErr>>
        PROVE  RunningIsOnDisk'
    BY Zenon, <2>2 DEF RunningIsOnDisk
  <2>3. Reload(files') \/ UNCHANGED <<files, running, reloadErr>>
    BY Zenon DEF Next, vars, cfgtorVars, SyncNode, DeleteNode, AddOrUpdateNode, SyncService,
           AddOrUpdateService, DeleteService, DeleteConfiguration
  <2> QED
    BY Zenon, <2>1, <2>2, <2>3
<1> QED
  BY <1>1, <1>2, PTL DEF Spec
=============================================================================
