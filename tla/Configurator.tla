---------------------------- MODULE Configurator -----------------------------
(***************************************************************************)
(* nginx/configurator.go, nginx/stream.go and Reload of nginx/nginx.go: the*)
(* state that the nodes worker and the services worker share, and the      *)
(* operations they call.  Each operation holds cfgtor.lock from its first  *)
(* to its last access (DeleteNode reads nodes before it takes the lock; no *)
(* other goroutine than its caller writes nodes), so each is one action.   *)
(*                                                                         *)
(* A map that has no entry for a key and one that has an empty slice are   *)
(* only ever ranged over: both are the empty set.  serviceUpstreamTarget   *)
(* is the set of the targets appended so far.                              *)
(***************************************************************************)
EXTENDS StreamConfig

CONSTANTS Keys,            \* the keys of the services
          SignalFails      \* "nginx -s reload" can fail: NGINX may not be running

VARIABLES nodes,                  \* candidate nodes, by name
          serviceUpstreamNodes,   \* nodes recorded for each service key
          serviceUpstreamTarget,  \* targets recorded for each service key
          files,                  \* the stream files of conf.d, by config name
          running,                \* the files NGINX last loaded
          reloadErr               \* what the last Reload came to: "", "test" or "signal"

cfgtorVars == <<nodes, serviceUpstreamNodes, serviceUpstreamTarget, files, running, reloadErr>>

CfgtorInit ==
  /\ nodes = <<>>
  /\ serviceUpstreamNodes = [k \in Keys |-> {}]
  /\ serviceUpstreamTarget = [k \in Keys |-> {}]
  /\ files = <<>> /\ running = <<>>
  /\ reloadErr = ""

-----------------------------------------------------------------------------
(* NGINX *)

\* "nginx -t", and "nginx -s reload" if it passes.  An error of either is logged
\* by the callers, nothing more.
Reload(fs) ==
  \/ /\ ~NginxAccepts(fs)
     /\ reloadErr' = "test" /\ running' = running
  \/ /\ NginxAccepts(fs)
     /\ reloadErr' = "" /\ running' = fs
  \/ /\ NginxAccepts(fs) /\ SignalFails
     /\ reloadErr' = "signal" /\ running' = running

WriteFile(name, config) == [c \in DOMAIN files \cup {name} |-> IF c = name THEN config ELSE files[c]]

\* DeleteStreamConfiguration: nothing happens if there is no such file.
RemoveFile(name) == [c \in DOMAIN files \ {name} |-> files[c]]

-----------------------------------------------------------------------------
(* Nodes *)

serviceListByNodeAddress(address) ==
  {k \in Keys : \E n \in serviceUpstreamNodes[k] : n.internalIP = address \/ n.externalIP = address}

serviceListByNodeName(name) == {k \in Keys : \E n \in serviceUpstreamNodes[k] : n.name = name}

\* A bug: only a change of the external address counts.
AffectedServices_ExternalOnly(node) ==
  IF node.name \notin DOMAIN nodes THEN {}
  ELSE LET elem == nodes[node.name]
       IN IF ~node.active THEN serviceListByNodeName(node.name)
          ELSE IF elem.externalIP # node.externalIP THEN serviceListByNodeAddress(elem.externalIP) ELSE {}

\* The services AddOrUpdateNode returns, whose upstreams have to be made anew.
AffectedServices(node) ==
  IF node.name \notin DOMAIN nodes THEN {}
  ELSE LET elem == nodes[node.name]
       IN IF ~node.active THEN serviceListByNodeName(node.name)
          ELSE (IF elem.internalIP # node.internalIP THEN serviceListByNodeAddress(elem.internalIP) ELSE {})
                 \cup
               (IF elem.externalIP # node.externalIP THEN serviceListByNodeAddress(elem.externalIP) ELSE {})

\* A bug: the map is keyed by the node's address.
AddOrUpdateNode_ByAddress(node) ==
  /\ nodes' = IF node.internalIP \in DOMAIN nodes /\ ~node.active
              THEN [n \in DOMAIN nodes \ {node.internalIP} |-> nodes[n]]
              ELSE [n \in DOMAIN nodes \cup {node.internalIP} |->
                      IF n = node.internalIP THEN node ELSE nodes[n]]
  /\ UNCHANGED <<serviceUpstreamNodes, serviceUpstreamTarget, files, running, reloadErr>>

\* A node that is not there is added, active or not; one that is there is
\* replaced, or removed if it is no longer active.
AddOrUpdateNode(node) ==
  /\ nodes' = IF node.name \in DOMAIN nodes /\ ~node.active
              THEN [n \in DOMAIN nodes \ {node.name} |-> nodes[n]]
              ELSE [n \in DOMAIN nodes \cup {node.name} |->
                      IF n = node.name THEN node ELSE nodes[n]]
  /\ UNCHANGED <<serviceUpstreamNodes, serviceUpstreamTarget, files, running, reloadErr>>

\* DeleteNode(name) is AddOrUpdateNode of this node, if there is one.
InactiveCopy(name) == [nodes[name] EXCEPT !.active = FALSE]

-----------------------------------------------------------------------------
(* Services *)

\* What createNodesStreamUpstream leaves in serviceUpstreamNodes: for "host",
\* the node of the last target whose node is known (the others are overwritten,
\* and nothing is written if there is none); for "all", every node.
RecordedNodes(spec) ==
  LET known == {i \in DOMAIN spec.topology : spec.topology[i].node \in DOMAIN nodes}
      last == CHOOSE i \in known : \A j \in known : j <= i
  IN IF spec.upstreamType # "node" \/ spec.topology = <<>> THEN serviceUpstreamNodes[spec.key]
     ELSE IF ValidateNodeSet(spec.svc.ann.nodeSet) = "all" THEN {nodes[n] : n \in DOMAIN nodes}
     ELSE IF known = {} THEN serviceUpstreamNodes[spec.key]
     ELSE {nodes[spec.topology[last].node]}

\* createPodStreamUpstream and createClusterStreamUpstream append every target.
RecordedTargets(spec) ==
  IF spec.upstreamType = "node" THEN serviceUpstreamTarget[spec.key]
  ELSE serviceUpstreamTarget[spec.key] \cup {spec.topology[i] : i \in DOMAIN spec.topology}

AddOrUpdateService(spec) ==
  /\ files' = WriteFile(spec.config, generateStreamNginxConfig(spec, nodes))
  /\ serviceUpstreamNodes' = [serviceUpstreamNodes EXCEPT ![spec.key] = RecordedNodes(spec)]
  /\ serviceUpstreamTarget' = [serviceUpstreamTarget EXCEPT ![spec.key] = RecordedTargets(spec)]
  /\ Reload(files')
  /\ UNCHANGED nodes

\* A bug: the file is removed and NGINX not told.
DeleteConfiguration_NoReload(name) ==
  /\ files' = RemoveFile(name)
  /\ serviceUpstreamNodes' = [k \in Keys |-> IF k = name THEN {} ELSE serviceUpstreamNodes[k]]
  /\ serviceUpstreamTarget' = [k \in Keys |-> IF k = name THEN {} ELSE serviceUpstreamTarget[k]]
  /\ UNCHANGED <<nodes, running, reloadErr>>

\* The maps are keyed by service keys, the deletes are of a config name.
DeleteConfiguration(name) ==
  /\ files' = RemoveFile(name)
  /\ serviceUpstreamNodes' = [k \in Keys |-> IF k = name THEN {} ELSE serviceUpstreamNodes[k]]
  /\ serviceUpstreamTarget' = [k \in Keys |-> IF k = name THEN {} ELSE serviceUpstreamTarget[k]]
  /\ Reload(files')
  /\ UNCHANGED nodes
=============================================================================
