------------------------------- MODULE MCLbex --------------------------------
(* Small clusters for Lbex.  The cluster changes without end and in every   *)
(* way the sets below allow; the state space is finite because they are.    *)
EXTENDS Lbex, TLC

MCcfg == [serviceName |-> <<>>, servicePool |-> "", strictAffinity |-> FALSE,
          antiAffinity |-> FALSE, requirePort |-> TRUE]

Service(ns, name, class, upstreamType, nodeSet, listen) ==
  [ns |-> ns, name |-> name, type |-> "NodePort", clusterIP |-> "ip0",
   ports |-> <<[name |-> <<"dns">>, port |-> 53, nodePort |-> 30053, protocol |-> "UDP",
                targetPort |-> [type |-> "Int", int |-> 53, name |-> <<>>]]>>,
   ann |-> [class |-> class, pool |-> "", algorithm |-> "", method |-> "",
            upstreamType |-> upstreamType, nodeSet |-> nodeSet, nodeAddressType |-> "",
            resolver |-> "", passthrough |-> FALSE,
            port |-> <<"dns">> :> [ok |-> TRUE, val |-> listen]]]

\* With a second port.
WithWeb(svc) ==
  [svc EXCEPT !.ports = Append(svc.ports,
                [name |-> <<"web">>, port |-> 80, nodePort |-> 30080, protocol |-> "TCP",
                 targetPort |-> [type |-> "Int", int |-> 8080, name |-> <<>>]]),
              !.ann.port = svc.ann.port @@ <<"web">> :> [ok |-> TRUE, val |-> 8080]]

Subset(ip, node) == << [addresses |-> <<[ip |-> ip, node |-> node]>>,
                        ports |-> <<[name |-> <<"dns">>, port |-> 53, protocol |-> "UDP"],
                                    [name |-> <<"web">>, port |-> 8080, protocol |-> "TCP"]>>] >>

NodeVersion(ip, un) == [addresses |-> <<[type |-> "InternalIP", address |-> ip]>>, unschedulable |-> un]

lbexClass == "loadbalancer-lbex"
prod == <<"prod">>
dns == <<"dns">>

\* One service with two ports that is balanced to pods or not for lbex, a pod
\* coming and going, also one whose node is not given.
PodServices == {WithWeb(Service(prod, dns, lbexClass, "pod", "", 8053)), Service(prod, dns, "", "pod", "", 8053)}
ComingPods == {{}, {<<>>}, {Subset("pod1", "n1")}, {Subset("pod2", NoNode)}}

\* One service on all nodes; a node that is cordoned with another address.
AllServices == {Service(prod, dns, lbexClass, "node", "all", 8053)}
OnePod == {{Subset("pod1", "n1")}}
MCNodeVersions(n) == {NodeVersion("10.1", FALSE), NodeVersion("10.2", TRUE)}

OneVersion(n) == {NodeVersion("10.1", FALSE)}

\* The service with one port.
OnePortServices == {Service(prod, dns, class, "pod", "", 8053) : class \in {lbexClass, ""}}

\* A service on the hosts of its pods.
HostServices == {Service(prod, dns, lbexClass, "node", "host", 8053)}
PodComesAndGoes == {{<<>>}, {Subset("pod1", "n1")}}

MCKeys == {KeyOf(s) : s \in Services}
=============================================================================
