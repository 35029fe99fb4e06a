------------------------------ MODULE Topology -------------------------------
(***************************************************************************)
(* controller.go: which services lbex manages, and the network targets of  *)
(* a managed service, computed from the stores of services and endpoints.  *)
(*                                                                         *)
(* An Endpoints object is a sequence of subsets, each a record             *)
(*   addresses   a sequence of [ip, node], node being NoNode when absent   *)
(*   ports       a sequence of [name, port, protocol]                      *)
(* A store maps the keys of the objects it holds to the objects.  cfg holds*)
(* the flags serviceName, servicePool, strictAffinity, antiAffinity and    *)
(* requirePort.                                                            *)
(***************************************************************************)
EXTENDS ServiceObject, Functions, FiniteSets

NoNode == ""

\* A bug: anti-affinity lets services that name no pool pass in any case.
checkAffinity_EmptyFirst(cfg, pool) ==
  IF pool = "" THEN ~cfg.strictAffinity \/ cfg.servicePool = ""
  ELSE IF cfg.antiAffinity /\ ~cfg.strictAffinity THEN pool # cfg.servicePool
       ELSE pool = cfg.servicePool

checkAffinity(cfg, pool) ==
  IF cfg.strictAffinity THEN pool = cfg.servicePool
  ELSE IF cfg.antiAffinity THEN pool # cfg.servicePool
       ELSE pool = "" \/ pool = cfg.servicePool

\* The annotation of a port that has no name is that of "unnamed".
PortAnnotation(svc, i) ==
  GetPortAnnotation(svc, IF svc.ports[i].name = <<>> THEN Unnamed ELSE svc.ports[i].name)

\* A bug: a number is good enough.
InPortRange_Any(port) == port \in Int

InPortRange(port) == 0 < port /\ port <= 65535

\* A port annotation out of range rejects the service, a missing or malformed
\* one is passed over, and one good annotation is needed: without requirePort
\* no annotation is looked at and none is found.
baseCheck(cfg, svc) ==
  /\ ValidateServiceObject(svc)
  /\ cfg.requirePort
  /\ \E i \in DOMAIN svc.ports : PortAnnotation(svc, i).ok
  /\ \A i \in DOMAIN svc.ports :
       PortAnnotation(svc, i).ok => InPortRange(PortAnnotation(svc, i).val)

\* A bug: a numeric target port is looked up by name, too.
TargetsPort_NameOnly(servicePort, epPort) ==
  epPort.port # 0 /\ epPort.name = servicePort.targetPort.name

\* The endpoint port serves this service port (targetPort # 0 in the code).
TargetsPort(servicePort, epPort) ==
  /\ epPort.port # 0
  /\ IF servicePort.targetPort.type = "Int"
     THEN epPort.port = servicePort.targetPort.int
     ELSE epPort.name = servicePort.targetPort.name

\* The sequences one after the other.
Concatenation(seqs) ==
  LET upTo[n \in 0..Len(seqs)] == IF n = 0 THEN <<>> ELSE upTo[n - 1] \o seqs[n]
  IN upTo[Len(seqs)]

Target(servicePort, epPort, address) ==
  [servicePort |-> servicePort.port, nodePort |-> servicePort.nodePort,
   node |-> address.node, podIP |-> address.ip,
   portName |-> epPort.name, podPort |-> epPort.port, protocol |-> epPort.protocol]

\* The targets of a service port that an endpoint port has.
PortTargets(servicePort, epPort, addresses) ==
  IF TargetsPort(servicePort, epPort)
  THEN [a \in DOMAIN addresses |-> Target(servicePort, epPort, addresses[a])]
  ELSE <<>>

SubsetTargets(servicePort, subset) ==
  Concatenation([p \in DOMAIN subset.ports |->
    PortTargets(servicePort, subset.ports[p], subset.addresses)])

getEndpoints(endpoints, servicePort) ==
  Concatenation([s \in DOMAIN endpoints |-> SubsetTargets(servicePort, endpoints[s])])

\* lbex provides load balancing for the service, as far as its own object says.
Managed(cfg, svc) ==
  /\ baseCheck(cfg, svc)
  /\ cfg.serviceName = <<>> \/ cfg.serviceName = svc.name
  /\ checkAffinity(cfg, svc.ann.pool)

\* No Endpoints object and one without subsets make no difference.
getServiceEndpoints(endpointStore, key) ==
  IF key \in DOMAIN endpointStore THEN endpointStore[key] ELSE <<>>

\* getEndpoints dereferences the NodeName of every address it selects, and a
\* nil one is a panic.
DereferencesNil(endpoints) == \E e \in Range(endpoints) : e.node = NoNode

\* The rule names sort the ports; two of one number keep their order.
ComesBefore(ports, i, j) ==
  LET rule(k) == LBRuleOrder(ports[k].port)
  IN rule(i) < rule(j) \/ (rule(i) = rule(j) /\ i < j)

\* The n-th port is the one that n - 1 ports come before.
PortOrder(ports) ==
  [n \in DOMAIN ports |->
     CHOOSE i \in DOMAIN ports :
       Cardinality({j \in DOMAIN ports : ComesBefore(ports, j, i)}) = n - 1]

\* The endpoints of each port, in the order of the rule names of the ports.
SortedTopo(ports, endpoints) ==
  Concatenation([n \in DOMAIN ports |-> endpoints[PortOrder(ports)[n]]])

\* The service is there and for lbex.
Balanced(cfg, servicesStore, key) ==
  key \in DOMAIN servicesStore /\ Managed(cfg, servicesStore[key])

\* The targets of the service, from one state of the stores.
getServiceNetworkTopo(cfg, servicesStore, endpointStore, key) ==
  IF ~Balanced(cfg, servicesStore, key) THEN <<>>
  ELSE LET ports == servicesStore[key].ports
       IN SortedTopo(ports, [i \in DOMAIN ports |->
            getEndpoints(getServiceEndpoints(endpointStore, key), ports[i])])

\* The ServiceSpec that syncServices builds from the service object it has read
\* and the topology it has computed.
SpecOf(svc, topo) ==
  [svc |-> svc, key |-> KeyOf(svc), config |-> ConfigName(KeyOf(svc)),
   algorithm |-> ValidateAlgorithm(svc.ann.algorithm),
   upstreamType |-> ValidateUpstreamType(svc.ann.upstreamType),
   clusterIP |-> svc.clusterIP, topology |-> topo]
=============================================================================
