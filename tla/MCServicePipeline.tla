-------------------------- MODULE MCServicePipeline --------------------------
(* A DNS-like service with one or two ports, on up to two nodes.  The ports *)
(* may share a target port (53/UDP and 53/TCP), name it, or have no name;   *)
(* their annotations may be missing, malformed or out of range.  A service   *)
(* of type ClusterIP has no node ports, and a resolver may be no address.    *)
EXTENDS ServicePipeline, TLC

dns == <<"dns">>
dnsTcp == <<"dns", "tcp">>

IntTarget(n) == [type |-> "Int", int |-> n, name |-> <<>>]
NamedTarget(n) == [type |-> "String", int |-> 0, name |-> n]

Port(n, p, np, proto, target) ==
  [name |-> n, port |-> p, nodePort |-> np, protocol |-> proto, targetPort |-> target]

PortLists ==
  {<<Port(dns, 53, 30053, "UDP", t)>> : t \in {IntTarget(53), NamedTarget(<<"web">>)}}
    \cup {<<Port(<<>>, 53, 30053, "UDP", IntTarget(53))>>}
    \cup {<<Port(dns, 53, 30053, "UDP", IntTarget(53)),
            Port(dnsTcp, 443, 30443, "TCP", t)>> : t \in {IntTarget(53), IntTarget(8443)}}

Ok(n) == [ok |-> TRUE, val |-> n]
PortAnnotations ==
  { <<>>, Unnamed :> Ok(8053), dns :> Ok(8053), dns :> Ok(70000), dns :> Ok(0),
    dns :> [ok |-> FALSE, val |-> 0] @@ dnsTcp :> Ok(8443),
    dns :> Ok(8053) @@ dnsTcp :> Ok(8443) }

Upstreams == {<<"pod", "", "">>, <<"cluster-ip", "", "">>, <<"bogus", "", "">>}
               \cup {<<"node", s, t>> : s \in {"host", "all"}, t \in {"internal", "external"}}

\* Only these types are given node ports.
WithNodePorts(type, ports) ==
  IF type \in {"NodePort", "LoadBalancer"} THEN ports ELSE [i \in DOMAIN ports |-> [ports[i] EXCEPT !.nodePort = 0]]

Service(type, ip, ports, class, pool, algo, up, resolver, ann) ==
  [ns |-> <<"prod">>, name |-> <<"my", "dns">>, type |-> type, clusterIP |-> ip,
   ports |-> WithNodePorts(type, ports),
   ann |-> [class |-> class, pool |-> pool, algorithm |-> algo, method |-> "",
            upstreamType |-> up[1], nodeSet |-> up[2], nodeAddressType |-> up[3],
            resolver |-> resolver, passthrough |-> FALSE, port |-> ann]]

MCServices ==
  {Service("NodePort", "ip0", ports, "loadbalancer-lbex", "", "", up, "", ann) :
     ports \in PortLists, up \in Upstreams, ann \in PortAnnotations}
  \cup
  {Service("ClusterIP", "ip0", ports, "loadbalancer-lbex", "", "", up, resolver,
           dns :> Ok(8053) @@ dnsTcp :> Ok(8443)) :
     ports \in PortLists, up \in Upstreams, resolver \in {"", "10.0.0.10", "local"}}
  \cup
  {Service(type, ip, <<Port(dns, 53, 30053, "UDP", IntTarget(53))>>, class, pool, algo,
           <<"pod", "", "">>, "", dns :> Ok(8053)) :
     type \in {"NodePort", "ExternalName"}, ip \in {"ip0", "None"},
     class \in {"loadbalancer-lbex", ""}, pool \in {"", "web", "db"},
     algo \in {"round_robin", "least_conn", "least_time"}}

MCConfigs ==
  {[serviceName |-> n, servicePool |-> pool, strictAffinity |-> s, antiAffinity |-> a,
    requirePort |-> r] :
     n \in {<<>>}, pool \in {"", "web"}, s \in BOOLEAN, a \in BOOLEAN, r \in {TRUE}}
  \cup
  {[serviceName |-> n, servicePool |-> "", strictAffinity |-> FALSE, antiAffinity |-> FALSE,
    requirePort |-> r] : n \in {<<>>, <<"other">>}, r \in BOOLEAN}

Pod(ip, n) == [ip |-> ip, node |-> n]
MCPodSets == {{}, {Pod("pod1", "n1")}, {Pod("pod1", "n1"), Pod("pod2", "n2")}}

Node(n, ext) == [name |-> n, internalIP |-> n \o ".int", externalIP |-> ext, active |-> TRUE]
MCNodeMaps == {<<>>, "n1" :> Node("n1", "n1.ext"),
               "n1" :> Node("n1", "n1.ext") @@ "n2" :> Node("n2", "n2.ext")}

MCContainerPort == <<"web">> :> 8080
=============================================================================
