--------------------------- MODULE ServicePipeline ---------------------------
(***************************************************************************)
(* What one sync of a service computes, from the objects in the stores to  *)
(* the NGINX stream configuration: syncServices without its concurrency.   *)
(* The inputs are a service, the pods behind it, the flags and the nodes;  *)
(* the Endpoints object is the one Kubernetes makes of service and pods.   *)
(***************************************************************************)
EXTENDS Topology, StreamConfig

CONSTANTS Configs,         \* flag settings
          Services,        \* service objects
          PodSets,         \* sets of pods [ip, node]
          NodeMaps,        \* candidate nodes
          ContainerPort    \* the number behind each named container port

\* External: the endpoints controller of Kubernetes makes a port of the name and
\* protocol of the service port, with the number its target port resolves to.
EndpointPort(port) ==
  [name |-> port.name, protocol |-> port.protocol,
   port |-> IF port.targetPort.type = "Int" THEN port.targetPort.int
            ELSE ContainerPort[port.targetPort.name]]

\* External: what the API server of Kubernetes lets into a service.  Its ports are
\* a list, are told apart by their names and have numbers, as have their target
\* ports; those of type NodePort and LoadBalancer, and no others, were given node
\* ports.  A service of a type that has a cluster address was given one, or "None".
\* A name that is empty makes no annotation.
IsPort(n) == n \in Int /\ ValidPort(n)

IsService(s) ==
  /\ s.ns \in Seq(STRING) /\ s.name \in Seq(STRING)
  /\ s.ports \in Seq(Range(s.ports))
  /\ \A i \in DOMAIN s.ports :
       /\ s.ports[i].name \in Seq(STRING)
       /\ IsPort(s.ports[i].port) /\ IsPort(EndpointPort(s.ports[i]).port)
       /\ IF s.type \in {"NodePort", "LoadBalancer"} THEN IsPort(s.ports[i].nodePort)
          ELSE s.ports[i].nodePort = 0
  /\ \A i, j \in DOMAIN s.ports : s.ports[i].name = s.ports[j].name => i = j
  /\ IsValidServiceType(s) => s.clusterIP # ""
  /\ <<>> \notin DOMAIN s.ann.port

IsConfig(c) ==
  c \in [serviceName : Seq(STRING), servicePool : STRING,
         strictAffinity : BOOLEAN, antiAffinity : BOOLEAN, requirePort : BOOLEAN]

\* Every pod that is ready has an address.
ArePods(ps) == IsFiniteSet(ps) /\ \A p \in ps : p.ip # ""

ASSUME InputsAssumption ==
  /\ \A s \in Services : IsService(s)
  /\ \A c \in Configs : IsConfig(c)
  /\ \A ps \in PodSets : ArePods(ps)

VARIABLES cfg, svc, pods, nodes,  \* the inputs
          step,                   \* how far the sync has got
          topo, conf              \* its results
vars == <<cfg, svc, pods, nodes, step, topo, conf>>

\* The pods in some order.
Listed(ps) == CHOOSE s \in [1..Cardinality(ps) -> ps] : IsInjective(s)

\* External: one subset, of the pods that are ready.
EndpointsOf(s, ps) ==
  IF ps = {} THEN <<>>
  ELSE << [addresses |-> Listed(ps),
           ports |-> [i \in DOMAIN s.ports |-> EndpointPort(s.ports[i])]] >>

NoConf == [resolver |-> "", upstreams |-> {}, servers |-> {}]

Init == /\ cfg \in Configs /\ svc \in Services /\ pods \in PodSets /\ nodes \in NodeMaps
        /\ step = "start" /\ topo = <<>> /\ conf = NoConf

\* syncServices up to getServiceNetworkTopo; an empty topology ends it.
ReadStores ==
  /\ step = "start"
  /\ topo' = getServiceNetworkTopo(cfg, [k \in {KeyOf(svc)} |-> svc],
                                   [k \in {KeyOf(svc)} |-> EndpointsOf(svc, pods)], KeyOf(svc))
  /\ step' = IF topo' = <<>> THEN "not managed" ELSE "generate"
  /\ UNCHANGED <<cfg, svc, pods, nodes, conf>>

\* AddOrUpdateService up to the configuration it writes.
Generate ==
  /\ step = "generate"
  /\ conf' = generateStreamNginxConfig(SpecOf(svc, topo), nodes)
  /\ step' = "written"
  /\ UNCHANGED <<cfg, svc, pods, nodes, topo>>

Next == ReadStores \/ Generate
Spec == Init /\ [][Next]_vars

-----------------------------------------------------------------------------
Listens(i) == PortAnnotation(svc, i).ok

\* The endpoint ports of the service's ports can be told apart by number, and
\* the ports have names.
PortsDistinct ==
  /\ \A i \in DOMAIN svc.ports : svc.ports[i].targetPort.type = "Int" /\ svc.ports[i].name # <<>>
  /\ \A i, j \in DOMAIN svc.ports :
       svc.ports[i].targetPort.int = svc.ports[j].targetPort.int => i = j

NodeIP(node) == IF svc.ann.nodeAddressType = "external" THEN node.externalIP ELSE node.internalIP

\* Where clients of the service's i-th port have to be sent.
Backends(i) ==
  CASE svc.ann.upstreamType = "pod" -> {<<p.ip, svc.ports[i].targetPort.int>> : p \in pods}
    [] svc.ann.upstreamType = "cluster-ip" -> {<<svc.clusterIP, svc.ports[i].port>>}
    [] OTHER -> {<<NodeIP(nodes[n]), svc.ports[i].nodePort>> :
                   n \in IF svc.ann.nodeSet = "all" THEN DOMAIN nodes
                         ELSE {p.node : p \in pods} \cap DOMAIN nodes}

\* End to end: the configuration listens, with the right protocol, on exactly
\* the ports that are annotated, and behind each of them are exactly the
\* backends of that service port - never another port's - whatever mix of
\* ports, annotations, upstream type and node set the service has.
TrafficReachesService ==
  step = "written" /\ PortsDistinct =>
    /\ \A i \in DOMAIN svc.ports : Listens(i) =>
         \E s \in conf.servers, u \in conf.upstreams :
           /\ s.port = PortAnnotation(svc, i).val /\ s.udp = (svc.ports[i].protocol = "UDP")
           /\ s.proxyPass = u.name /\ u.servers = Backends(i)
    /\ \A s \in conf.servers : \E i \in DOMAIN svc.ports :
         Listens(i) /\ s.port = PortAnnotation(svc, i).val

\* A service is picked up when it asks for lbex, has a good port annotation and
\* running pods: with distinct ports nothing else makes its topology empty.
ManagedGetsTopology ==
  step = "not managed" /\ PortsDistinct => ~Managed(cfg, svc) \/ pods = {}

\* The configuration of one service, taken by itself, passes "nginx -t" when
\* the nodes of its pods are known with the addresses it asks for, node upstreams
\* are asked for only where there are node ports, and the resolver is one: then
\* no port is 0 or out of range, no upstream is empty and nothing is defined
\* twice.  The code checks none of these conditions (createNodesStreamUpstream,
\* formatAddress, generateStreamNginxConfig).
GeneratedIsAccepted ==
  /\ step = "written"
  /\ \A i, j \in DOMAIN svc.ports : Listens(i) /\ Listens(j) /\ i # j =>
       PortAnnotation(svc, i).val # PortAnnotation(svc, j).val
  /\ DOMAIN nodes # {} /\ \A p \in pods : p.node \in DOMAIN nodes
  /\ \A n \in DOMAIN nodes : NodeIP(nodes[n]) # ""
  /\ ValidateUpstreamType(svc.ann.upstreamType) = "node" => svc.type # "ClusterIP"
  /\ svc.ann.resolver \in Resolvers \cup {""}
  /\ ValidateAlgorithm(svc.ann.algorithm) # "least_time"
  => NginxAccepts([c \in {ConfigName(KeyOf(svc))} |-> conf])

\* README, --strict-affinity and --anti-affinity: of two instances with the
\* same pool, one strict and one anti, exactly one serves any given service.
AffinityPartition ==
  baseCheck(cfg, svc) /\ cfg.serviceName = <<>> =>
    (Managed([cfg EXCEPT !.strictAffinity = TRUE], svc)
       # Managed([[cfg EXCEPT !.strictAffinity = FALSE] EXCEPT !.antiAffinity = TRUE], svc))

-----------------------------------------------------------------------------
(* What comments and documentation say, and the code does not do. *)

\* README: "If `--required-port=false` then this value can be ommited".
PortAnnotationOptional ==
  step = "not managed" /\ PortsDistinct /\ ~cfg.requirePort =>
    \/ ~ValidateServiceObject(svc)
    \/ cfg.serviceName \notin {<<>>, svc.name}
    \/ ~checkAffinity(cfg, svc.ann.pool)
    \/ pods = {}
=============================================================================
