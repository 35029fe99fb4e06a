---------------------------- MODULE StreamConfig -----------------------------
(***************************************************************************)
(* nginx/configurator.go: the NGINX stream configuration of one service.   *)
(*                                                                         *)
(* A ServiceSpec is a record [svc, key, config, algorithm, upstreamType,   *)
(* clusterIP, topology], topology being a sequence of targets              *)
(*   [servicePort, nodePort, node, podIP, podPort, portName, protocol].    *)
(* nodes maps the names of the candidate nodes to                          *)
(*   [name, internalIP, externalIP, active].                               *)
(* An address is a pair of host and port.  The order of the server lines   *)
(* of an upstream, their repetition, and the order of the blocks of a file *)
(* do not matter to what is checked: they are sets.                        *)
(***************************************************************************)
EXTENDS ServiceObject

CONSTANT Resolvers   \* the texts NGINX takes as addresses of name servers

getNameForStreamUpstream(svc, portName) ==
  svc.ns \o svc.name \o (IF portName = <<>> THEN Unnamed ELSE portName)

formatAddress(addressType, node, target) ==
  <<IF addressType = "internal" THEN node.internalIP ELSE node.externalIP, target.nodePort>>

\* The nodes createNodesStreamUpstream takes for one target.
UpstreamNodes(spec, target, nodes) ==
  IF ValidateNodeSet(spec.svc.ann.nodeSet) = "host"
  THEN {nodes[n] : n \in {target.node} \cap DOMAIN nodes}
  ELSE {nodes[n] : n \in DOMAIN nodes}

createNodesStreamUpstream(spec, target, nodes) ==
  {formatAddress(ValidateNodeAddressType(spec.svc.ann.nodeAddressType), node, target)
     : node \in UpstreamNodes(spec, target, nodes)}

createPodStreamUpstream(spec, target) == {<<target.podIP, target.podPort>>}

createClusterStreamUpstream(spec, target) == {<<spec.clusterIP, target.servicePort>>}

UpstreamServers(spec, target, nodes) ==
  CASE spec.upstreamType = "node"       -> createNodesStreamUpstream(spec, target, nodes)
    [] spec.upstreamType = "pod"        -> createPodStreamUpstream(spec, target)
    [] spec.upstreamType = "cluster-ip" -> createClusterStreamUpstream(spec, target)

\* A bug: only the first target of an upstream gets into it.
UpstreamTargets_FirstOnly(name, i) == {i}

\* The targets that fill the upstream of the i-th one.
UpstreamTargets(name, i) == {j \in DOMAIN name : name[j] = name[i]}

\* Round robin is NGINX's default and has no directive.
AlgorithmDirective(algorithm) == IF algorithm = "round_robin" THEN "" ELSE algorithm

UpstreamNames(spec) ==
  [i \in DOMAIN spec.topology |-> getNameForStreamUpstream(spec.svc, spec.topology[i].portName)]

\* The targets whose upstream does not exist yet when their turn comes.
FirstTargets(spec) ==
  {i \in DOMAIN spec.topology : \A j \in 1..(i - 1) : UpstreamNames(spec)[j] # UpstreamNames(spec)[i]}

\* One upstream per port name, filled from all targets of that name.
StreamUpstream(spec, nodes, i) ==
  [name |-> UpstreamNames(spec)[i],
   algorithm |-> AlgorithmDirective(spec.algorithm),
   method |-> IF spec.algorithm = "least_time" THEN ValidateMethod(spec.svc.ann.method) ELSE "",
   servers |-> UNION {UpstreamServers(spec, spec.topology[j], nodes)
                        : j \in UpstreamTargets(UpstreamNames(spec), i)}]

\* The first target of an upstream decides on its server block, which needs a
\* port annotation.
ListenPort(spec, i) == GetPortAnnotation(spec.svc, spec.topology[i].portName)

StreamServer(spec, i) ==
  [port |-> ListenPort(spec, i).val, udp |-> spec.topology[i].protocol = "UDP",
   passthrough |-> spec.svc.ann.passthrough, proxyPass |-> UpstreamNames(spec)[i]]

generateStreamNginxConfig(spec, nodes) ==
  [resolver |-> spec.svc.ann.resolver,
   upstreams |-> {StreamUpstream(spec, nodes, i) : i \in FirstTargets(spec)},
   servers |-> {StreamServer(spec, i) : i \in {i \in FirstTargets(spec) : ListenPort(spec, i).ok}}]

-----------------------------------------------------------------------------
(***************************************************************************)
(* External: "nginx -t" on the stream files of conf.d, as far as the files *)
(* lbex writes can fail it.  NGINX rejects an upstream without servers, a  *)
(* server without a host, a port that is none (0 included), an upstream    *)
(* name or a listen address defined twice, a resolver that is no address,  *)
(* a second resolver in the stream block, and an algorithm that is no      *)
(* directive of the stable community version (least_time, round_robin).    *)
(***************************************************************************)
ValidPort(port) == 0 < port /\ port <= 65535

UpstreamAccepted(u) == /\ u.servers # {}
                       /\ \A a \in u.servers : a[1] # "" /\ ValidPort(a[2])
                       /\ u.algorithm \in {"", "least_conn"}

NginxAccepts(files) ==
  /\ \A c \in DOMAIN files :
       /\ \A u \in files[c].upstreams : UpstreamAccepted(u)
       /\ \A s \in files[c].servers : ValidPort(s.port)
       /\ files[c].resolver \in Resolvers \cup {""}
  /\ \A c, d \in DOMAIN files :
       /\ \A u \in files[c].upstreams, w \in files[d].upstreams : u.name = w.name => c = d /\ u = w
       /\ \A s \in files[c].servers, t \in files[d].servers :
            s.port = t.port /\ s.udp = t.udp => c = d /\ s = t
       /\ files[c].resolver # "" /\ files[d].resolver # "" => c = d
=============================================================================
