------------------------- MODULE MCUpstreamTracking --------------------------
(* Two nodes: one changes its internal address, to that of the other, which  *)
(* may be unschedulable.  A service with node set "all", and one that        *)
(* balances to hosts or to pods, there with a port that clashes with the     *)
(* first.                                                                    *)
EXTENDS UpstreamTracking, TLC

MCNodes ==
  {[name |-> "n1", internalIP |-> ip[1], externalIP |-> ip[2], active |-> TRUE] :
     ip \in {<<"10.1", "1.1">>, <<"10.2", "1.1">>}}
  \cup
  {[name |-> "n2", internalIP |-> "10.2", externalIP |-> "2.1", active |-> act] : act \in BOOLEAN}

Service(name, upstreamType, nodeSet, addressType, listen) ==
  [ns |-> <<"prod">>, name |-> <<name>>, type |-> "NodePort", clusterIP |-> "ip0",
   ports |-> <<[name |-> <<"dns">>, port |-> 53, nodePort |-> 30053, protocol |-> "UDP",
                targetPort |-> [type |-> "Int", int |-> 53, name |-> <<>>]]>>,
   ann |-> [class |-> "loadbalancer-lbex", pool |-> "", algorithm |-> "", method |-> "",
            upstreamType |-> upstreamType, nodeSet |-> nodeSet, nodeAddressType |-> addressType,
            resolver |-> "", passthrough |-> FALSE,
            port |-> <<"dns">> :> [ok |-> TRUE, val |-> listen]]]

Targets(nodesOfPods) ==
  [i \in DOMAIN nodesOfPods |->
     [servicePort |-> 53, nodePort |-> 30053, node |-> nodesOfPods[i],
      podIP |-> "pod" \o nodesOfPods[i], podPort |-> 53, portName |-> <<"dns">>, protocol |-> "UDP"]]

SpecOf(svc, nodesOfPods) ==
  [svc |-> svc, key |-> KeyOf(svc), config |-> ConfigName(KeyOf(svc)), algorithm |-> "round_robin",
   upstreamType |-> ValidateUpstreamType(svc.ann.upstreamType), clusterIP |-> svc.clusterIP,
   topology |-> Targets(nodesOfPods)]

MCSpecs ==
  {SpecOf(Service("a", "node", "all", "internal", 8053), <<"n1">>),
   SpecOf(Service("b", "node", "host", "external", 8054), <<"n1", "n2">>),
   SpecOf(Service("b", "pod", "", "", 8053), <<"n1">>)}

MCKeys == {s.key : s \in MCSpecs}
=============================================================================
