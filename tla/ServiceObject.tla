---------------------------- MODULE ServiceObject ----------------------------
(***************************************************************************)
(* A Kubernetes Service as lbex sees it (service.go, package annotations), *)
(* and the values its annotations may take (nginx/service.go).             *)
(*                                                                         *)
(* A name that Kubernetes restricts to words joined by "-" is the sequence *)
(* of its words: "my-svc" is <<"my", "svc">> and "" is <<>>.  Joining two  *)
(* names with "-" is then \o, with the ambiguity this really has.  In a    *)
(* key "ns/name" the "/" is an element of its own.                         *)
(*                                                                         *)
(* A service is a record                                                   *)
(*   ns, name, type, clusterIP                                             *)
(*   ports   a sequence of [name, port, nodePort, protocol, targetPort],   *)
(*           targetPort being [type, int, name], of which type "Int" uses  *)
(*           int and type "String" uses name                               *)
(*   ann     its annotations: class, pool, algorithm, method,              *)
(*           upstreamType, nodeSet, nodeAddressType and resolver hold ""   *)
(*           when missing, passthrough FALSE; port maps the names of the   *)
(*           loadbalancer-port annotations that are there to what Atoi     *)
(*           makes of them, [ok, val].                                     *)
(***************************************************************************)
EXTENDS Integers, Sequences

Unnamed == <<"unnamed">>          \* SingleDefaultPortName

\* MetaNamespaceKeyFunc: "ns/name", as a service always has a namespace.
KeyOf(svc) == svc.ns \o <<"/">> \o svc.name

\* strings.Replace(key, "/", "-", -1)
ConfigName(key) == SelectSeq(key, LAMBDA word : word # "/")

\* strings.HasPrefix(key, "kube-system/")
InKubeSystem(key) == SubSeq(key, 1, 3) = <<"kube", "system", "/">>

-----------------------------------------------------------------------------
(* service.go *)

ServiceTypeHeadless(svc) == svc.clusterIP = "None"

IsValidServiceType(svc) ==
  /\ ~ServiceTypeHeadless(svc)
  /\ svc.type \in {"NodePort", "ClusterIP", "LoadBalancer"}

\* annotations.IsValid
IsValid(svc) == svc.ann.class = "loadbalancer-lbex"

ValidateServiceObject(svc) == IsValidServiceType(svc) /\ IsValid(svc)

\* GetServiceNameForLBRule gives "name" for port 80 and "name:port" for the
\* others.  Within one service these strings compare like LBRuleOrder: "name"
\* comes first, the rest follow the decimal digits of the port from the left.
Powers == <<10, 100, 1000, 10000, 100000>>
Digits(port) == CHOOSE d \in 1..5 : port < Powers[d] /\ (d = 1 \/ port >= Powers[d - 1])
LBRuleOrder(port) ==
  IF port = 80 THEN 0 ELSE port * Powers[6 - Digits(port)] + Digits(port)

-----------------------------------------------------------------------------
(* annotations/service_annotation.go *)

\* GetIntAnnotation of LBEXPortAnnotationBase + name; no annotation at all and
\* one that is no number are both errors.
GetPortAnnotation(svc, name) ==
  IF name \in DOMAIN svc.ann.port THEN svc.ann.port[name] ELSE [ok |-> FALSE, val |-> 0]

-----------------------------------------------------------------------------
(* nginx/service.go: a value that is not supported becomes the default *)

Methods == {"connect", "first_byte", "last_byte",
            "connect inflight", "first_byte inflight", "last_byte inflight"}

ValidateAlgorithm(a) == IF a \in {"round_robin", "least_conn", "least_time"} THEN a ELSE "round_robin"
ValidateMethod(m) == IF m \in Methods THEN m ELSE "connect"
ValidateUpstreamType(u) == IF u \in {"node", "pod", "cluster-ip"} THEN u ELSE "node"
ValidateNodeSet(s) == IF s \in {"host", "all"} THEN s ELSE "host"
ValidateNodeAddressType(t) == IF t \in {"internal", "external"} THEN t ELSE "internal"
=============================================================================
