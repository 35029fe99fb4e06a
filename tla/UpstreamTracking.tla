-------------------------- MODULE UpstreamTracking ---------------------------
(***************************************************************************)
(* The Configurator with its two callers, in any order: the nodes worker   *)
(* adds, changes and removes nodes and is told which services are affected;*)
(* the services worker writes and deletes services.  The question is       *)
(* whether a file that no longer fits the nodes is always reported.        *)
(*   affected  services reported to the nodes worker and not written since *)
(*   applied   the ServiceSpec each service was last written with          *)
(***************************************************************************)
EXTENDS Configurator

CONSTANTS Nodes,       \* the nodes AddOrUpdateNode may be called with
          Specs        \* the ServiceSpecs AddOrUpdateService may be called with

NodeType == [name : {n.name : n \in Nodes}, internalIP : {n.internalIP : n \in Nodes},
             externalIP : {n.externalIP : n \in Nodes}, active : BOOLEAN]

ASSUME NodesAssumption == Nodes \subseteq NodeType

\* A config name has no "/" and so is no key; syncServices does not go on to
\* AddOrUpdateService without targets.
ASSUME SpecsAssumption ==
  \A s \in Specs : s.key \in Keys /\ s.config \notin Keys /\ s.topology # <<>>

\* Config names do not clash: services whose names join alike share a file.
ASSUME DistinctConfigNames ==
  \A s, t \in Specs : s.config = t.config <=> s.key = t.key

VARIABLES affected, applied
vars == <<cfgtorVars, affected, applied>>

Init == CfgtorInit /\ affected = {} /\ applied = <<>>

SyncNode(node) ==
  /\ AddOrUpdateNode(node)
  /\ affected' = affected \cup AffectedServices(node)
  /\ UNCHANGED applied

DeleteNode(name) ==
  /\ name \in DOMAIN nodes
  /\ SyncNode(InactiveCopy(name))

SyncService(spec) ==
  /\ AddOrUpdateService(spec)
  /\ affected' = affected \ {spec.key}
  /\ applied' = [k \in DOMAIN applied \cup {spec.key} |-> IF k = spec.key THEN spec ELSE applied[k]]

\* A service that has been written is deleted under its config name.
DeleteService(key) ==
  /\ key \in DOMAIN applied
  /\ DeleteConfiguration(applied[key].config)
  /\ affected' = affected \ {key}
  /\ applied' = [k \in DOMAIN applied \ {key} |-> applied[k]]

Next == \/ \E node \in Nodes : SyncNode(node) \/ DeleteNode(node.name)
        \/ \E spec \in Specs : SyncService(spec) \/ DeleteService(spec.key)

Spec == Init /\ [][Next]_vars

-----------------------------------------------------------------------------
ToNodes(spec, set) == spec.upstreamType = "node" /\ ValidateNodeSet(spec.svc.ann.nodeSet) = set

Address(spec, node) ==
  IF ValidateNodeAddressType(spec.svc.ann.nodeAddressType) = "internal"
  THEN node.internalIP ELSE node.externalIP

Hosts(key) == {a[1] : a \in UNION {u.servers : u \in files[applied[key].config].upstreams}}

TypeOK ==
  /\ \A n \in DOMAIN nodes : nodes[n] \in NodeType /\ nodes[n].name = n
  /\ DOMAIN serviceUpstreamNodes = Keys /\ DOMAIN serviceUpstreamTarget = Keys
  /\ affected \subseteq Keys
  /\ DOMAIN applied \subseteq Keys
  /\ \A k \in DOMAIN applied : applied[k] \in Specs /\ applied[k].key = k
  /\ reloadErr \in {"", "test", "signal"}

\* A service written for node set "all" has in its file only addresses that
\* candidate nodes have now, unless it has been reported as affected: a node
\* that goes, or changes its address, is never forgotten.
AllSetFollowsNodes ==
  \A k \in DOMAIN applied : ToNodes(applied[k], "all") /\ k \notin affected =>
    \A h \in Hosts(k) : \E n \in DOMAIN nodes : h = Address(applied[k], nodes[n])

\* NGINX runs what is on disk whenever that passes its test and the reload
\* signal got through: one operation's failed reload is made up by the next.
RunningIsOnDisk == NginxAccepts(files) /\ reloadErr # "signal" => running = files

-----------------------------------------------------------------------------
(* What comments and documentation say, and the code does not do. *)

\* configurator.go: serviceUpstreamNodes is a "map service key to nodes that
\* populate the services upstream"; of a "host" service only one is recorded,
\* so that its other nodes can go unnoticed.
HostSetFollowsNodes ==
  \A k \in DOMAIN applied : ToNodes(applied[k], "host") /\ k \notin affected =>
    \A h \in Hosts(k) : \E n \in DOMAIN nodes : h = Address(applied[k], nodes[n])
=============================================================================
