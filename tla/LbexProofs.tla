------------------------------ MODULE LbexProofs -----------------------------
(***************************************************************************)
(* Proofs about Lbex, for any services, endpoints, nodes and flags.        *)
(*                                                                         *)
(* First the shape of the state: the queues stay consistent, each worker   *)
(* holds the key its queue has handed out, and no key of kube-system gets  *)
(* past the event handlers, into a queue, into the records of the          *)
(* Configurator or into conf.d.                                            *)
(*                                                                         *)
(* The invariants speak of the states in which lbex has come to rest, and  *)
(* say nothing of how it gets there.  What is inductive is that, in every  *)
(* state, whatever does not fit the stores is on its way to be put right:  *)
(* an event or a key is waiting, or a worker holds what is there now.      *)
(***************************************************************************)
EXTENDS Lbex, SharedLemmas

\* Only these keys get past the event handlers (filterObject).
SyncedKeys == {k \in Keys : ~InKubeSystem(k)}

\* The worker w holds exactly the key its queue q has handed out.
QueueOK(q, w, K) ==
  /\ q \in QueueType(K) /\ Consistent(q) /\ ~q.shuttingDown
  /\ q.processing = IF w.pc = "idle" THEN {} ELSE {w.key}

QueuesOK == /\ QueueOK(sq, sw, SyncedKeys)
            /\ QueueOK(eq, ew, SyncedKeys)
            /\ QueueOK(nq, nw, NodeNames)

StoresOK ==
  /\ \A k \in DOMAIN servicesStore : servicesStore[k] \in Services /\ KeyOf(servicesStore[k]) = k
  /\ DOMAIN endpointStore \subseteq Keys /\ DOMAIN nodesStore \subseteq NodeNames
  /\ sevent \subseteq SyncedKeys /\ eevent \subseteq SyncedKeys /\ nevent \subseteq NodeNames
  /\ missed \cap DOMAIN nodesStore = {}

IsNode(n, v) == v \in [name : {n}, internalIP : {v.internalIP},
                       externalIP : {v.externalIP}, active : BOOLEAN]

WorkersOK ==
  /\ sw.pc \in {"topo", "ports", "write"} => sw.svc \in Services /\ KeyOf(sw.svc) = sw.key
  /\ nw.pc = "update" => IsNode(nw.key, nw.node)
  /\ nw.pc \in {"enqueue", "add"} => nw.affected \subseteq SyncedKeys
  /\ nw.pc = "add" => nw.svc \in nw.affected

CfgtorOK ==
  /\ \A n \in DOMAIN nodes : n \in NodeNames /\ IsNode(n, nodes[n])
  /\ DOMAIN serviceUpstreamNodes = Keys
  /\ \A k \in Keys : serviceUpstreamNodes[k] # {} \/ ConfigName(k) \in DOMAIN files => k \in SyncedKeys

Shape == QueuesOK /\ StoresOK /\ WorkersOK /\ CfgtorOK

-----------------------------------------------------------------------------
(* The queues and their workers *)

\* A worker that holds a key holds one of its queue's keys.
LEMMA HeldKey ==
  ASSUME NEW q, NEW w, NEW K, QueueOK(q, w, K), w.pc # "idle"
  PROVE  w.key \in K
BY Zenon DEF QueueOK, QueueType

\* An event handler or another worker adds a key to a queue.
LEMMA QueueAdd ==
  ASSUME NEW q, NEW w, NEW K, QueueOK(q, w, K), NEW k \in K
  PROVE  QueueOK(Add(q, k), w, K) /\ Add(q, k).dirty = q.dirty \cup {k}
<1>1. q \in QueueType(K) /\ Consistent(q) /\ ~q.shuttingDown
  BY Zenon DEF QueueOK
<1>2. /\ Add(q, k) \in QueueType(K) /\ Consistent(Add(q, k))
      /\ Add(q, k).dirty = q.dirty \cup {k}
      /\ Add(q, k).processing = q.processing
      /\ ~Add(q, k).shuttingDown
  BY SMTT(30), <1>1, AddLemma
<1> QED
  BY Zenon, <1>1, <1>2 DEF QueueOK

\* An idle worker takes the next key.
LEMMA QueueGet ==
  ASSUME NEW q, NEW w, NEW K, QueueOK(q, w, K), w.pc = "idle", HasItem(q),
         NEW v, v.pc # "idle", v.key = Head(q.queue)
  PROVE  /\ QueueOK(Get(q), v, K)
         /\ Get(q).dirty = q.dirty \ {v.key}
         /\ v.key \in q.dirty
<1>1. /\ q \in QueueType(K) /\ Consistent(q) /\ ~q.shuttingDown /\ q.processing = {}
  BY Zenon DEF QueueOK
<1>2. /\ Get(q) \in QueueType(K)
      /\ Consistent(Get(q))
      /\ Head(q.queue) \in q.dirty
      /\ Get(q).dirty = q.dirty \ {Head(q.queue)}
      /\ Get(q).processing = q.processing \cup {Head(q.queue)}
      /\ Get(q).shuttingDown = q.shuttingDown
  BY Zenon, <1>1, GetLemma
<1>3. Get(q).processing = {v.key} /\ ~Get(q).shuttingDown
  BY Zenon, <1>1, <1>2
<1> QED
  BY Zenon, <1>2, <1>3 DEF QueueOK

\* A worker that is done with its key waits for the next.
LEMMA QueueDone ==
  ASSUME NEW q, NEW w, NEW K, QueueOK(q, w, K), w.pc # "idle"
  PROVE  QueueOK(Done(q, w.key), Idle, K) /\ Done(q, w.key).dirty = q.dirty
<1>1. /\ q \in QueueType(K) /\ Consistent(q) /\ ~q.shuttingDown /\ q.processing = {w.key}
      /\ w.key \in K
  BY Zenon, HeldKey DEF QueueOK
<1>2. Idle.pc = "idle"
  BY Zenon DEF Idle
<1>3. /\ Done(q, w.key) \in QueueType(K) /\ Consistent(Done(q, w.key))
      /\ Done(q, w.key).dirty = q.dirty
      /\ Done(q, w.key).processing = {}
      /\ Done(q, w.key).shuttingDown = q.shuttingDown
  BY SMTT(30), <1>1, DoneLemma
<1> QED
  BY Zenon, <1>1, <1>2, <1>3 DEF QueueOK

\* Between Get and Done a worker keeps its key.
LEMMA QueueHold ==
  ASSUME NEW q, NEW w, NEW K, QueueOK(q, w, K), w.pc # "idle",
         NEW v, v.pc # "idle", v.key = w.key
  PROVE  QueueOK(q, v, K)
BY Zenon DEF QueueOK

-----------------------------------------------------------------------------
(* Shape *)

\* lbex starts with nothing known, nothing queued and every worker waiting.
LEMMA InitShape == Init => Shape
<1> SUFFICES ASSUME Init PROVE Shape
  OBVIOUS
<1>1. DOMAIN <<>> = {}
  OBVIOUS
<1>2. \A K : QueueOK(EmptyQueue, Idle, K)
  <2>1. \A K : EmptyQueue \in QueueType(K)
    BY SMTT(30) DEF EmptyQueue, QueueType
  <2>2. Consistent(EmptyQueue)
    BY SMTT(30) DEF EmptyQueue, Consistent
  <2> QED
    BY Zenon, <2>1, <2>2 DEF QueueOK, EmptyQueue, Idle
<1>3. sw.pc = "idle" /\ ew.pc = "idle" /\ nw.pc = "idle"
  BY Zenon DEF Init, Idle
<1>4. QueuesOK
  BY Zenon, <1>2 DEF Init, QueuesOK
<1>5. StoresOK /\ WorkersOK /\ CfgtorOK
  BY Zenon, <1>1, <1>3 DEF Init, CfgtorInit, StoresOK, WorkersOK, CfgtorOK
<1> QED BY Zenon, <1>4, <1>5 DEF Shape

\* An informer changes its store only at the key of the event, which it hands
\* to the handler.
LEMMA ChangesShape == ASSUME Shape, Changes PROVE Shape'
<1>1. UNCHANGED <<cfgtorVars, queues, workers>>
  BY Zenon DEF Changes, ServiceChange, EndpointsChange, NodeChange, NodeDeletionMissed
<1>2. QueuesOK'
  BY Zenon, <1>1 DEF Shape, QueuesOK, queues, workers, SyncedKeys
<1>3. WorkersOK'
  BY Zenon, <1>1 DEF Shape, WorkersOK, workers, IsNode
<1>4. CfgtorOK'
  BY Zenon, <1>1 DEF Shape, CfgtorOK, cfgtorVars, IsNode
<1>5. StoresOK'
  <2>1. ASSUME NEW k \in Keys, ServiceChange(k) PROVE StoresOK'
    BY SMTT(30), <2>1 DEF Shape, StoresOK, ServiceChange, Put, Drop, Handled, SyncedKeys
  <2>2. ASSUME NEW k \in Keys, EndpointsChange(k) PROVE StoresOK'
    BY Zenon, <2>2 DEF Shape, StoresOK, EndpointsChange, Put, Drop, Handled, SyncedKeys
  <2>3. ASSUME NEW n \in NodeNames, NodeChange(n) PROVE StoresOK'
    BY SMTT(30), <2>3 DEF Shape, StoresOK, NodeChange, Put, Drop
  <2>4. ASSUME NEW n \in NodeNames, NodeDeletionMissed(n) PROVE StoresOK'
    BY Zenon, <2>4 DEF Shape, StoresOK, NodeDeletionMissed, Drop, events
  <2> QED BY Zenon, <2>1, <2>2, <2>3, <2>4 DEF Changes
<1> QED BY Zenon, <1>2, <1>3, <1>4, <1>5 DEF Shape

\* A handler adds its key to its queue.
LEMMA HandlersShape == ASSUME Shape, Handlers PROVE Shape'
<1>1. UNCHANGED <<cfgtorVars, stores, workers, missed>>
  BY Zenon DEF Handlers, ServiceHandler, EndpointsHandler, NodeHandler
<1>2. WorkersOK' /\ CfgtorOK'
  BY Zenon, <1>1 DEF Shape, WorkersOK, CfgtorOK, workers, cfgtorVars, IsNode
<1>3. StoresOK'
  BY Zenon, <1>1 DEF Shape, StoresOK, stores, Handlers, ServiceHandler, EndpointsHandler, NodeHandler
<1>4. QueuesOK'
  <2>1. ASSUME NEW k \in sevent, ServiceHandler(k) PROVE QueuesOK'
    BY Zenon, <2>1, <1>1, QueueAdd DEF Shape, StoresOK, QueuesOK, workers, ServiceHandler
  <2>2. ASSUME NEW k \in eevent, EndpointsHandler(k) PROVE QueuesOK'
    BY Zenon, <2>2, <1>1, QueueAdd DEF Shape, StoresOK, QueuesOK, workers, EndpointsHandler
  <2>3. ASSUME NEW n \in nevent, NodeHandler(n) PROVE QueuesOK'
    BY Zenon, <2>3, <1>1, QueueAdd DEF Shape, StoresOK, QueuesOK, workers, NodeHandler
  <2> QED BY Zenon, <2>1, <2>2, <2>3 DEF Handlers
<1> QED BY Zenon, <1>2, <1>3, <1>4 DEF Shape

\* A step of the services worker: it takes a key, keeps it and gives it back.
LEMMA ServicesQueues == ASSUME Shape, ServicesWorker PROVE QueuesOK'
<1> USE DEF Shape, QueuesOK, ServicesWorker
<1>1. QueueOK(eq', ew', SyncedKeys) /\ QueueOK(nq', nw', NodeNames)
  BY Zenon
<1>2. ASSUME sw.pc # "idle", sw'.pc # "idle", sw'.key = sw.key, sq' = sq
      PROVE  QueueOK(sq', sw', SyncedKeys)
  BY Zenon, <1>2, QueueHold
<1>3. CASE ServicesGet
  <2>1. sw'.pc # "idle" /\ sw'.key = Head(sq.queue)
    BY Zenon, <1>3 DEF ServicesGet
  <2> QED BY Zenon, <1>1, <1>3, <2>1, QueueGet DEF ServicesGet
<1>4. CASE ServicesDone
  <2>1. sw.pc # "idle"
    BY Zenon, <1>4 DEF ServicesDone
  <2> QED BY Zenon, <1>1, <1>4, <2>1, QueueDone DEF ServicesDone
<1>5. CASE ServicesRead \/ ServicesTopo \/ ServicesPort \/ ServicesWrite \/ ServicesDelete
  <2>1. sw.pc # "idle" /\ sw'.pc # "idle" /\ sw'.key = sw.key /\ sq' = sq
    BY SMTT(30), <1>5 DEF ServicesRead, ServicesTopo, ServicesPort, ServicesWrite, ServicesDelete
  <2> QED BY ZenonT(60), <1>1, <1>2, <2>1
<1> QED BY Zenon, <1>3, <1>4, <1>5

\* What the services worker holds stays of its key, and what it writes is of a
\* key that gets past the handlers.
LEMMA ServicesShape == ASSUME Shape, ServicesWorker PROVE Shape'
<1> USE DEF Shape
<1>1. QueuesOK'
  BY Zenon, ServicesQueues
<1>2. StoresOK'
  BY Zenon DEF ServicesWorker, StoresOK, stores, events
<1>3. nw' = nw
  BY ZenonT(60) DEF ServicesWorker
<1>4. WorkersOK'
  BY SMTT(30), <1>3 DEF ServicesWorker, ServicesGet, ServicesRead, ServicesTopo, ServicesPort,
     ServicesWrite, ServicesDelete, ServicesDone, WorkersOK, StoresOK, Idle, IsNode
<1>5. CfgtorOK'
  <2>1. CASE ServicesWrite
    <3> DEFINE spec == SpecOf(sw.svc, sw.topo)
    <3>1. sw.key \in SyncedKeys /\ spec.key = sw.key /\ spec.config = ConfigName(sw.key)
      BY Zenon, <2>1, HeldKey DEF QueuesOK, WorkersOK, ServicesWrite, SpecOf
    <3>2. AddOrUpdateService(spec)
      BY Zenon, <2>1 DEF ServicesWrite
    <3> HIDE DEF spec
    <3>3. /\ nodes' = nodes
          /\ DOMAIN serviceUpstreamNodes' = Keys
          /\ DOMAIN files' = DOMAIN files \cup {ConfigName(sw.key)}
          /\ \A k \in Keys : k # sw.key => serviceUpstreamNodes'[k] = serviceUpstreamNodes[k]
      BY Zenon, <3>1, <3>2 DEF CfgtorOK, AddOrUpdateService, WriteFile
    <3> QED
      BY ZenonT(60), <3>1, <3>3, ConfigNamesAssumption DEF CfgtorOK, SyncedKeys, IsNode
  <2>2. CASE ServicesDelete
    BY ZenonT(60), <2>2 DEF ServicesDelete, DeleteConfiguration, RemoveFile, CfgtorOK, IsNode
  <2>3. CASE UNCHANGED cfgtorVars
    BY Zenon, <2>3 DEF cfgtorVars, CfgtorOK, IsNode
  <2> QED
    BY ZenonT(60), <2>1, <2>2, <2>3 DEF ServicesWorker, ServicesGet, ServicesRead, ServicesTopo,
       ServicesPort, ServicesDone
<1> QED BY Zenon, <1>1, <1>2, <1>4, <1>5

\* A step of the endpoints worker.
LEMMA EndpointsShape == ASSUME Shape, EndpointsWorker PROVE Shape'
<1> USE DEF Shape, EndpointsWorker
<1>1. StoresOK' /\ WorkersOK' /\ CfgtorOK'
  BY Zenon DEF StoresOK, WorkersOK, CfgtorOK, stores, events, cfgtorVars, IsNode
<1>2. QueueOK(nq', nw', NodeNames) /\ sw' = sw
  BY Zenon DEF QueuesOK
<1>3. CASE EndpointsGet
  <2>1. ew'.pc # "idle" /\ ew'.key = Head(eq.queue)
    BY Zenon, <1>3 DEF EndpointsGet
  <2>2. QueuesOK'
    BY ZenonT(60), <1>2, <1>3, <2>1, QueueGet DEF EndpointsGet, QueuesOK
  <2> QED BY ZenonT(60), <1>1, <2>2
<1>4. CASE EndpointsDone
  <2>1. ew.pc # "idle"
    BY Zenon, <1>4 DEF EndpointsDone
  <2>2. QueuesOK'
    BY Zenon, <1>2, <1>4, <2>1, QueueDone DEF EndpointsDone, QueuesOK
  <2> QED BY Zenon, <1>1, <2>2
<1>5. ASSUME ew.pc # "idle", ew'.pc # "idle", ew'.key = ew.key, eq' = eq
      PROVE  QueueOK(eq', ew', SyncedKeys)
  BY Zenon, <1>5, QueueHold DEF QueuesOK
<1>6. CASE EndpointsAdd
  <2>1. ew.pc # "idle" /\ ew'.pc # "idle" /\ ew'.key = ew.key /\ eq' = eq
    BY Zenon, <1>6 DEF EndpointsAdd
  <2>2. ew.key \in SyncedKeys
    BY Zenon, <2>1, HeldKey DEF QueuesOK
  <2>3. QueuesOK'
    BY ZenonT(60), <1>2, <1>5, <1>6, <2>1, <2>2, QueueAdd DEF EndpointsAdd, QueuesOK
  <2> QED BY Zenon, <1>1, <2>3
<1>7. CASE EndpointsRead \/ EndpointsTopo \/ EndpointsPort \/ EndpointsLookup
  <2>1. ew.pc # "idle" /\ ew'.pc # "idle" /\ ew'.key = ew.key /\ eq' = eq /\ sq' = sq
    BY SMTT(30), <1>7 DEF EndpointsRead, EndpointsTopo, EndpointsPort, EndpointsLookup
  <2>2. QueuesOK'
    BY Zenon, <1>2, <1>5, <2>1 DEF QueuesOK
  <2> QED BY Zenon, <1>1, <2>2
<1> QED BY ZenonT(60), <1>3, <1>4, <1>6, <1>7

\* The node that DeleteNode hands to AddOrUpdateNode.
LEMMA InactiveNode ==
  ASSUME NEW n, IsNode(n, nodes[n])
  PROVE  IsNode(n, InactiveCopy(n)) /\ InactiveCopy(n).name = n /\ ~InactiveCopy(n).active
<1> DEFINE v == nodes[n]
           w == InactiveCopy(n)
           T == [name : {n}, internalIP : {v.internalIP}, externalIP : {v.externalIP}, active : BOOLEAN]
<1>1. w \in T /\ w.active = FALSE
  BY Zenon DEF IsNode, InactiveCopy
<1>2. w.internalIP = v.internalIP /\ w.externalIP = v.externalIP /\ w.name = n
  BY Zenon, <1>1
<1> QED
  BY Zenon, <1>1, <1>2 DEF IsNode

\* AddOrUpdateNode reports services that have been written, and changes the
\* candidates only at the node.
LEMMA AddOrUpdateNodeShape ==
  ASSUME Shape, NEW n \in NodeNames, NEW node, IsNode(n, node), AddOrUpdateNode(node)
  PROVE  CfgtorOK' /\ AffectedServices(node) \subseteq SyncedKeys
<1>1. node.name = n
  BY ZenonT(60) DEF IsNode
<1>2. AffectedServices(node) \subseteq SyncedKeys
  BY Zenon DEF Shape, CfgtorOK, AffectedServices, serviceListByNodeAddress, serviceListByNodeName
<1>3. \A m \in DOMAIN nodes' : m \in NodeNames /\ IsNode(m, nodes'[m])
  BY Zenon, <1>1 DEF AddOrUpdateNode, Shape, CfgtorOK
<1>4. UNCHANGED <<serviceUpstreamNodes, files>>
  BY Zenon DEF AddOrUpdateNode
<1> QED
  BY Zenon, <1>2, <1>3, <1>4 DEF Shape, CfgtorOK, SyncedKeys, IsNode

\* A step of the nodes worker.
LEMMA NodesQueues == ASSUME Shape, NodesWorker PROVE QueuesOK'
<1> USE DEF Shape, QueuesOK
<1>1. QueueOK(eq', ew', SyncedKeys) /\ sw' = sw
  BY Zenon DEF NodesWorker
<1>2. CASE NodesGet
  <2>1. nw'.pc # "idle" /\ nw'.key = Head(nq.queue)
    BY Zenon, <1>2 DEF NodesGet
  <2> QED BY Zenon, <1>1, <1>2, <2>1, QueueGet DEF NodesGet
<1>3. CASE NodesDone
  <2>1. nw.pc # "idle"
    BY Zenon, <1>3 DEF NodesDone
  <2> QED BY Zenon, <1>1, <1>3, <2>1, QueueDone DEF NodesDone
<1>4. ASSUME nw.pc # "idle", nw'.pc # "idle", nw'.key = nw.key, nq' = nq
      PROVE  QueueOK(nq', nw', NodeNames)
  BY Zenon, <1>4, QueueHold
<1>5. CASE NodesAdd
  <2>1. nw.pc # "idle" /\ nw'.pc # "idle" /\ nw'.key = nw.key /\ nq' = nq
    BY ZenonT(60), <1>5 DEF NodesAdd
  <2>2. nw.svc \in SyncedKeys
    BY Zenon, <1>5 DEF NodesAdd, WorkersOK
  <2> QED BY Zenon, <1>1, <1>4, <1>5, <2>1, <2>2, QueueAdd DEF NodesAdd
<1>6. CASE NodesRead \/ NodesUpdate \/ NodesDelete \/ \E k \in Keys : NodesLookup(k)
  <2>1. nw.pc # "idle" /\ nw'.pc # "idle" /\ nw'.key = nw.key /\ nq' = nq /\ sq' = sq
    BY SMTT(30), <1>6 DEF NodesRead, NodesUpdate, NodesDelete, NodesLookup
  <2> QED BY ZenonT(60), <1>1, <1>4, <2>1
<1> QED BY Zenon, <1>2, <1>3, <1>5, <1>6 DEF NodesWorker

\* What the nodes worker is going to enqueue gets past the handlers.
LEMMA NodesShape == ASSUME Shape, NodesWorker PROVE Shape'
<1>1. QueuesOK'
  BY Zenon, NodesQueues
<1>2. StoresOK' /\ sw' = sw
  BY Zenon DEF Shape, NodesWorker, StoresOK, stores, events
<1>3. CASE NodesUpdate
  <2>1. nw.key \in NodeNames /\ IsNode(nw.key, nw.node) /\ AddOrUpdateNode(nw.node)
    BY Zenon, <1>3, HeldKey DEF Shape, QueuesOK, WorkersOK, NodesUpdate
  <2>2. CfgtorOK' /\ AffectedServices(nw.node) \subseteq SyncedKeys
    BY Zenon, <2>1, AddOrUpdateNodeShape
  <2>3. WorkersOK'
    BY Zenon, <1>2, <1>3, <2>2 DEF Shape, WorkersOK, NodesUpdate
  <2> QED BY ZenonT(60), <1>1, <1>2, <2>2, <2>3 DEF Shape
<1>4. CASE NodesDelete
  <2>1. CASE nw.key \in DOMAIN nodes
    <3>1. nw.key \in NodeNames /\ IsNode(nw.key, nodes[nw.key])
      BY Zenon, <2>1 DEF Shape, CfgtorOK
    <3>2. IsNode(nw.key, InactiveCopy(nw.key)) /\ AddOrUpdateNode(InactiveCopy(nw.key))
      BY Zenon, <1>4, <2>1, <3>1, InactiveNode DEF NodesDelete
    <3>3. CfgtorOK' /\ AffectedServices(InactiveCopy(nw.key)) \subseteq SyncedKeys
      BY Zenon, <3>1, <3>2, AddOrUpdateNodeShape
    <3>4. WorkersOK'
      BY Zenon, <1>2, <1>4, <2>1, <3>3 DEF Shape, WorkersOK, NodesDelete
    <3> QED BY Zenon, <1>1, <1>2, <3>3, <3>4 DEF Shape
  <2>2. CASE nw.key \notin DOMAIN nodes
    <3>1. CfgtorOK'
      BY Zenon, <1>4, <2>2 DEF NodesDelete, cfgtorVars, Shape, CfgtorOK, IsNode
    <3>2. WorkersOK'
      BY ZenonT(60), <1>2, <1>4, <2>2 DEF Shape, WorkersOK, NodesDelete
    <3> QED BY ZenonT(60), <1>1, <1>2, <3>1, <3>2 DEF Shape
  <2> QED BY Zenon, <2>1, <2>2
<1>5. CASE NodesGet \/ NodesRead \/ (\E k \in Keys : NodesLookup(k)) \/ NodesAdd \/ NodesDone
  <2>1. UNCHANGED cfgtorVars
    BY ZenonT(60), <1>5 DEF NodesGet, NodesRead, NodesLookup, NodesAdd, NodesDone
  <2>2. CfgtorOK'
    BY Zenon, <2>1 DEF cfgtorVars, Shape, CfgtorOK, IsNode
  <2>3. \A n, v : IsNode(n, NodeOf(n, v))
    BY ZenonT(60) DEF IsNode, NodeOf
  <2>4. nw'.pc = "update" => IsNode(nw'.key, nw'.node)
    BY SMTT(30), <1>5, <2>3 DEF NodesGet, NodesRead, NodesLookup, NodesAdd, NodesDone, Idle
  <2>5. /\ nw'.pc \in {"enqueue", "add"} => nw'.affected \subseteq SyncedKeys
        /\ nw'.pc = "add" => nw'.svc \in nw'.affected
    <3>1. CASE NodesGet \/ NodesRead \/ NodesDone
      BY SMTT(30), <3>1 DEF NodesGet, NodesRead, NodesDone, Idle
    <3>2. CASE NodesAdd
      BY ZenonT(60), <3>2 DEF Shape, WorkersOK, NodesAdd
    <3>3. ASSUME NEW k, NodesLookup(k)
          PROVE  /\ nw'.pc \in {"enqueue", "add"} => nw'.affected \subseteq SyncedKeys
                 /\ nw'.pc = "add" => nw'.svc \in nw'.affected
      BY ZenonT(60), <3>3 DEF Shape, WorkersOK, NodesLookup
    <3> QED BY ZenonT(60), <1>5, <3>1, <3>2, <3>3
  <2>6. WorkersOK'
    BY Zenon, <1>2, <2>4, <2>5 DEF Shape, WorkersOK, SyncedKeys
  <2> QED BY Zenon, <1>1, <1>2, <2>2, <2>6 DEF Shape
<1> QED BY Zenon, <1>3, <1>4, <1>5 DEF NodesWorker

\* Every step keeps the shape.
LEMMA ShapeStep == ASSUME Shape, [Next]_vars PROVE Shape'
<1>1. CASE StartServices \/ UNCHANGED vars
  <2>1. UNCHANGED <<cfgtorVars, stores, events, queues, workers, missed>>
    BY Zenon, <1>1 DEF StartServices, vars
  <2> QED
    BY ZenonT(60), <2>1 DEF Shape, QueuesOK, StoresOK, WorkersOK, CfgtorOK, cfgtorVars, stores, events,
       queues, workers, IsNode
<1> QED
  BY ZenonT(60), <1>1, ChangesShape, HandlersShape, ServicesShape, EndpointsShape, NodesShape DEF Next

\* Keys go where they belong, and a worker holds what its queue has handed out,
\* whatever the services, the nodes and the interleaving of the goroutines.
THEOREM TypeCorrect == Safety => []TypeOK
<1>1. Shape => TypeOK
  <2> SUFFICES ASSUME Shape PROVE TypeOK
    OBVIOUS
  <2>1. SyncedKeys \subseteq Keys
    BY ZenonT(60) DEF SyncedKeys
  <2>2. /\ sq.dirty \subseteq Keys /\ sq.processing = (IF sw.pc = "idle" THEN {} ELSE {sw.key})
        /\ eq.dirty \subseteq Keys /\ eq.processing = (IF ew.pc = "idle" THEN {} ELSE {ew.key})
        /\ nq.dirty \subseteq NodeNames /\ nq.processing = (IF nw.pc = "idle" THEN {} ELSE {nw.key})
    BY ZenonT(60), <2>1 DEF Shape, QueuesOK, QueueOK, QueueType
  <2>3. \A k \in DOMAIN servicesStore : servicesStore[k] \in Services /\ k \in Keys
    BY Zenon, ServicesAssumption DEF Shape, StoresOK
  <2> QED BY ZenonT(60), <2>1, <2>2, <2>3 DEF Shape, StoresOK, TypeOK
<1>2. Shape /\ [Next]_vars => Shape'
  BY Zenon, ShapeStep
<1> QED BY InitShape, <1>1, <1>2, PTL DEF Safety

-----------------------------------------------------------------------------
(* Queues as sets of pending keys *)

\* What a step may do to a queue q and its worker w, which become r and v.
QueueStep(q, w, r, v, K) ==
  \/ r = q /\ (v = w \/ (w.pc # "idle" /\ v.pc # "idle" /\ v.key = w.key))
  \/ v = w /\ \E k \in K : r = Add(q, k)
  \/ w.pc = "idle" /\ HasItem(q) /\ v.pc # "idle" /\ v.key = Head(q.queue) /\ r = Get(q)
  \/ w.pc # "idle" /\ v.pc = "idle" /\ r = Done(q, w.key)

\* What a step may do to a set p of pending keys and to the key c in hand.
PendingStep(p, c, p2, c2, K, none) ==
  \/ p2 = p /\ c2 = c
  \/ c2 = c /\ \E k \in K : p2 = p \cup {k}
  \/ c = none /\ c2 \in p /\ c2 \in K /\ p2 = p \ {c2}
  \/ c # none /\ c2 = none /\ p2 = p

\* The one is the other, with what is dirty pending.
LEMMA QueueStepIsPending ==
  ASSUME NEW q, NEW w, NEW r, NEW v, NEW K, NEW none, none \notin K,
         QueueOK(q, w, K), QueueStep(q, w, r, v, K)
  PROVE  PendingStep(q.dirty, Held(w, none), r.dirty, Held(v, none), K, none)
<1>1. CASE r = q /\ (v = w \/ (w.pc # "idle" /\ v.pc # "idle" /\ v.key = w.key))
  BY Zenon, <1>1 DEF PendingStep, Held
<1>2. CASE v = w /\ \E k \in K : r = Add(q, k)
  <2>1. PICK k \in K : r = Add(q, k)
    BY Zenon, <1>2
  <2>2. Add(q, k).dirty = q.dirty \cup {k}
    BY Zenon, QueueAdd
  <2> QED BY Zenon, <1>2, <2>1, <2>2 DEF PendingStep
<1>3. CASE w.pc = "idle" /\ HasItem(q) /\ v.pc # "idle" /\ v.key = Head(q.queue) /\ r = Get(q)
  <2>1. Get(q).dirty = q.dirty \ {v.key} /\ v.key \in q.dirty
    BY Zenon, <1>3, QueueGet
  <2>2. q.dirty \subseteq K
    BY Zenon DEF QueueOK, QueueType
  <2> QED BY Zenon, <1>3, <2>1, <2>2 DEF PendingStep, Held
<1>4. CASE w.pc # "idle" /\ v.pc = "idle" /\ r = Done(q, w.key)
  <2>1. w.key \in K /\ Done(q, w.key).dirty = q.dirty
    BY Zenon, <1>4, HeldKey, QueueDone
  <2> QED BY Zenon, <1>4, <2>1 DEF PendingStep, Held
<1> QED BY Zenon, <1>1, <1>2, <1>3, <1>4 DEF QueueStep

\* The services queue is filled by its handler and by the two other workers, and
\* emptied by its own.
LEMMA ServicesQueueStep == ASSUME Shape, [Next]_vars PROVE QueueStep(sq, sw, sq', sw', SyncedKeys)
<1>1. CASE Changes \/ StartServices \/ UNCHANGED vars
  <2>1. sq' = sq /\ sw' = sw
    BY Zenon, <1>1 DEF Changes, ServiceChange, EndpointsChange, NodeChange, NodeDeletionMissed,
       StartServices, vars, queues, workers
  <2> QED BY Zenon, <2>1 DEF QueueStep
<1>2. CASE Handlers
  <2>1. sw' = sw /\ (sq' = sq \/ \E k \in sevent : sq' = Add(sq, k))
    BY Zenon, <1>2 DEF Handlers, ServiceHandler, EndpointsHandler, NodeHandler, workers
  <2>2. sevent \subseteq SyncedKeys
    BY Zenon DEF Shape, StoresOK
  <2> QED BY Zenon, <2>1, <2>2 DEF QueueStep
<1>3. CASE ServicesWorker
  <2>1. CASE ServicesGet
    <3>1. sw'.pc # "idle" /\ sw'.key = Head(sq.queue)
      BY Zenon, <2>1 DEF ServicesGet
    <3> QED BY Zenon, <2>1, <3>1 DEF ServicesGet, QueueStep
  <2>2. CASE ServicesDone
    <3>1. sw.pc # "idle" /\ sw'.pc = "idle"
      BY Zenon, <2>2 DEF ServicesDone, Idle
    <3> QED BY Zenon, <2>2, <3>1 DEF ServicesDone, QueueStep
  <2>3. CASE ServicesRead \/ ServicesTopo \/ ServicesPort \/ ServicesWrite \/ ServicesDelete
    <3>1. sw.pc # "idle" /\ sw'.pc # "idle" /\ sw'.key = sw.key /\ sq' = sq
      BY SMTT(30), <2>3 DEF ServicesRead, ServicesTopo, ServicesPort, ServicesWrite, ServicesDelete
    <3> QED BY Zenon, <3>1 DEF QueueStep
  <2> QED BY Zenon, <1>3, <2>1, <2>2, <2>3 DEF ServicesWorker
<1>4. CASE EndpointsWorker
  <2>1. sw' = sw
    BY Zenon, <1>4 DEF EndpointsWorker
  <2>2. CASE EndpointsAdd
    <3>1. ew.key \in SyncedKeys /\ sq' = Add(sq, ew.key)
      BY Zenon, <2>2, HeldKey DEF Shape, QueuesOK, EndpointsAdd
    <3> QED BY Zenon, <2>1, <3>1 DEF QueueStep
  <2>3. CASE sq' = sq
    BY Zenon, <2>1, <2>3 DEF QueueStep
  <2> QED BY Zenon, <1>4, <2>2, <2>3 DEF EndpointsWorker, EndpointsGet, EndpointsRead, EndpointsTopo,
     EndpointsPort, EndpointsLookup, EndpointsDone
<1>5. CASE NodesWorker
  <2>1. sw' = sw
    BY Zenon, <1>5 DEF NodesWorker
  <2>2. CASE NodesAdd
    <3>1. nw.svc \in SyncedKeys /\ sq' = Add(sq, nw.svc)
      BY Zenon, <2>2 DEF Shape, WorkersOK, NodesAdd
    <3> QED BY Zenon, <2>1, <3>1 DEF QueueStep
  <2>3. CASE sq' = sq
    BY Zenon, <2>1, <2>3 DEF QueueStep
  <2> QED BY Zenon, <1>5, <2>2, <2>3 DEF NodesWorker, NodesGet, NodesRead, NodesUpdate, NodesDelete,
     NodesLookup, NodesDone
<1> QED BY Zenon, <1>1, <1>2, <1>3, <1>4, <1>5 DEF Next

\* The endpoints queue is filled by its handler and emptied by its worker.
LEMMA EndpointsQueueStep == ASSUME Shape, [Next]_vars PROVE QueueStep(eq, ew, eq', ew', SyncedKeys)
<1>1. CASE Changes \/ StartServices \/ ServicesWorker \/ NodesWorker \/ UNCHANGED vars
  <2>1. eq' = eq /\ ew' = ew
    BY Zenon, <1>1 DEF Changes, ServiceChange, EndpointsChange, NodeChange, NodeDeletionMissed,
       StartServices, ServicesWorker, NodesWorker, vars, queues, workers
  <2> QED BY Zenon, <2>1 DEF QueueStep
<1>2. CASE Handlers
  <2>1. ew' = ew /\ (eq' = eq \/ \E k \in eevent : eq' = Add(eq, k))
    BY Zenon, <1>2 DEF Handlers, ServiceHandler, EndpointsHandler, NodeHandler, workers
  <2>2. eevent \subseteq SyncedKeys
    BY Zenon DEF Shape, StoresOK
  <2> QED BY Zenon, <2>1, <2>2 DEF QueueStep
<1>3. CASE EndpointsWorker
  <2>1. CASE EndpointsGet
    <3>1. ew'.pc # "idle" /\ ew'.key = Head(eq.queue)
      BY Zenon, <2>1 DEF EndpointsGet
    <3> QED BY Zenon, <2>1, <3>1 DEF EndpointsGet, QueueStep
  <2>2. CASE EndpointsDone
    <3>1. ew.pc # "idle" /\ ew'.pc = "idle"
      BY Zenon, <2>2 DEF EndpointsDone, Idle
    <3> QED BY Zenon, <2>2, <3>1 DEF EndpointsDone, QueueStep
  <2>3. CASE EndpointsRead \/ EndpointsTopo \/ EndpointsPort \/ EndpointsLookup \/ EndpointsAdd
    <3>1. ew.pc # "idle" /\ ew'.pc # "idle" /\ ew'.key = ew.key /\ eq' = eq
      BY SMTT(30), <2>3 DEF EndpointsRead, EndpointsTopo, EndpointsPort, EndpointsLookup, EndpointsAdd
    <3> QED BY Zenon, <3>1 DEF QueueStep
  <2> QED BY Zenon, <1>3, <2>1, <2>2, <2>3 DEF EndpointsWorker
<1> QED BY Zenon, <1>1, <1>2, <1>3 DEF Next

\* So is the nodes queue.
LEMMA NodesQueueStep == ASSUME Shape, [Next]_vars PROVE QueueStep(nq, nw, nq', nw', NodeNames)
<1>1. CASE Changes \/ StartServices \/ ServicesWorker \/ EndpointsWorker \/ UNCHANGED vars
  <2>1. nq' = nq /\ nw' = nw
    BY Zenon, <1>1 DEF Changes, ServiceChange, EndpointsChange, NodeChange, NodeDeletionMissed,
       StartServices, ServicesWorker, EndpointsWorker, vars, queues, workers
  <2> QED BY Zenon, <2>1 DEF QueueStep
<1>2. CASE Handlers
  <2>1. nw' = nw /\ (nq' = nq \/ \E n \in nevent : nq' = Add(nq, n))
    BY Zenon, <1>2 DEF Handlers, ServiceHandler, EndpointsHandler, NodeHandler, workers
  <2>2. nevent \subseteq NodeNames
    BY Zenon DEF Shape, StoresOK
  <2> QED BY Zenon, <2>1, <2>2 DEF QueueStep
<1>3. CASE NodesWorker
  <2>1. CASE NodesGet
    <3>1. nw'.pc # "idle" /\ nw'.key = Head(nq.queue)
      BY Zenon, <2>1 DEF NodesGet
    <3> QED BY Zenon, <2>1, <3>1 DEF NodesGet, QueueStep
  <2>2. CASE NodesDone
    <3>1. nw.pc # "idle" /\ nw'.pc = "idle"
      BY Zenon, <2>2 DEF NodesDone, Idle
    <3> QED BY Zenon, <2>2, <3>1 DEF NodesDone, QueueStep
  <2>3. CASE NodesRead \/ NodesUpdate \/ NodesDelete \/ (\E k \in Keys : NodesLookup(k)) \/ NodesAdd
    <3>1. nw.pc # "idle" /\ nw'.pc # "idle" /\ nw'.key = nw.key /\ nq' = nq
      BY SMTT(30), <2>3 DEF NodesRead, NodesUpdate, NodesDelete, NodesLookup, NodesAdd
    <3> QED BY Zenon, <3>1 DEF QueueStep
  <2> QED BY Zenon, <1>3, <2>1, <2>2, <2>3 DEF NodesWorker
<1> QED BY Zenon, <1>1, <1>2, <1>3 DEF Next

\* Each of the three queues of lbex implements the safety part of the set of
\* pending keys, whichever goroutines enqueue.
THEOREM QueuesRefinePendingSet == Safety => QueuesArePendingSets
<1>1. Init => ServicesPending!Init /\ EndpointsPending!Init /\ NodesPending!Init
  <2> SUFFICES ASSUME Init PROVE ServicesPending!Init /\ EndpointsPending!Init /\ NodesPending!Init
    OBVIOUS
  <2>1. EmptyQueue.dirty = {} /\ Idle.pc = "idle"
    BY SMTT(30) DEF EmptyQueue, Idle
  <2>2. sq = EmptyQueue /\ eq = EmptyQueue /\ nq = EmptyQueue /\ sw = Idle /\ ew = Idle /\ nw = Idle
    BY Zenon DEF Init
  <2>3. ServicesPending!Init
    BY Zenon, <2>1, <2>2 DEF Held, ServicesPending!Init
  <2>4. EndpointsPending!Init
    BY Zenon, <2>1, <2>2 DEF Held, EndpointsPending!Init
  <2>5. NodesPending!Init
    BY Zenon, <2>1, <2>2 DEF Held, NodesPending!Init
  <2> QED BY Zenon, <2>3, <2>4, <2>5
<1>2. Shape /\ [Next]_vars => [ServicesPending!Next]_(ServicesPending!psVars)
  <2> SUFFICES ASSUME Shape, [Next]_vars PROVE [ServicesPending!Next]_(ServicesPending!psVars)
    OBVIOUS
  <2>1. <<>> \notin SyncedKeys /\ QueueOK(sq, sw, SyncedKeys) /\ \A k \in SyncedKeys : k \in Keys
    BY Zenon, NamesAssumption DEF SyncedKeys, Shape, QueuesOK
  <2>2. PendingStep(sq.dirty, Held(sw, <<>>), (sq').dirty, Held(sw', <<>>), SyncedKeys, <<>>)
    BY Zenon, <2>1, ServicesQueueStep, QueueStepIsPending
  <2> QED BY Zenon, <2>1, <2>2 DEF PendingStep, Held, ServicesPending!Next, ServicesPending!Mark,
     ServicesPending!Take, ServicesPending!Finish, ServicesPending!psVars
<1>3. Shape /\ [Next]_vars => [EndpointsPending!Next]_(EndpointsPending!psVars)
  <2> SUFFICES ASSUME Shape, [Next]_vars PROVE [EndpointsPending!Next]_(EndpointsPending!psVars)
    OBVIOUS
  <2>1. <<>> \notin SyncedKeys /\ QueueOK(eq, ew, SyncedKeys) /\ \A k \in SyncedKeys : k \in Keys
    BY Zenon, NamesAssumption DEF SyncedKeys, Shape, QueuesOK
  <2>2. PendingStep(eq.dirty, Held(ew, <<>>), (eq').dirty, Held(ew', <<>>), SyncedKeys, <<>>)
    BY Zenon, <2>1, EndpointsQueueStep, QueueStepIsPending
  <2> QED BY Zenon, <2>1, <2>2 DEF PendingStep, Held, EndpointsPending!Next, EndpointsPending!Mark,
     EndpointsPending!Take, EndpointsPending!Finish, EndpointsPending!psVars
<1>4. Shape /\ [Next]_vars => [NodesPending!Next]_(NodesPending!psVars)
  <2> SUFFICES ASSUME Shape, [Next]_vars PROVE [NodesPending!Next]_(NodesPending!psVars)
    OBVIOUS
  <2>1. NoNode \notin NodeNames /\ QueueOK(nq, nw, NodeNames)
    BY Zenon, NamesAssumption DEF Shape, QueuesOK
  <2>2. PendingStep(nq.dirty, Held(nw, NoNode), (nq').dirty, Held(nw', NoNode), NodeNames, NoNode)
    BY Zenon, <2>1, NodesQueueStep, QueueStepIsPending
  <2> QED BY Zenon, <2>2 DEF PendingStep, Held, NodesPending!Next, NodesPending!Mark,
     NodesPending!Take, NodesPending!Finish, NodesPending!psVars
<1>5. Shape /\ [Next]_vars => Shape'
  BY Zenon, ShapeStep
<1> QED BY InitShape, <1>1, <1>2, <1>3, <1>4, <1>5, PTL DEF Safety, QueuesArePendingSets,
   ServicesPending!Safety, EndpointsPending!Safety, NodesPending!Safety

-----------------------------------------------------------------------------
(* What does not fit the stores is on its way to be put right. *)

\* The services worker is to sync k.
Due(k) == k \in sevent \cup sq.dirty

\* What the worker w has read of the ports and endpoints of its service is what
\* is there now.
ReadsCurrent(w) ==
  /\ w.ports = servicesStore[w.key].ports
  /\ w.endpoints \in Seq(Range(w.endpoints)) /\ Len(w.endpoints) < Len(w.ports)
  /\ \A i \in 1..Len(w.endpoints) :
       w.endpoints[i] = getEndpoints(getServiceEndpoints(endpointStore, w.key), w.ports[i])

\* The endpoints worker is going to enqueue k.
EndpointsDue(k) ==
  \/ k \in eevent \cup eq.dirty
  \/ /\ ew.pc # "idle" /\ ew.key = k
     /\ \/ ew.pc \in {"read", "topo", "enqueue", "add"}
        \/ ew.pc = "ports" /\ ReadsCurrent(ew)

\* The nodes worker is going to enqueue k.
NodesDue(k) == nw.pc \in {"enqueue", "add"} /\ k \in nw.affected

\* The services worker syncs k and has read nothing that has changed since.
SyncFresh(k) ==
  /\ sw.pc # "idle" /\ sw.key = k
  /\ \/ sw.pc = "read"
     \/ /\ sw.pc \in {"topo", "ports", "write"} /\ sw.svc = servicesStore[k]
        /\ sw.pc = "ports" => ReadsCurrent(sw)
        /\ sw.pc = "write" => sw.topo = Topo(k)

\* The services worker syncs k and has read something.
Syncing(k) == sw.pc \in {"topo", "ports", "write", "delete"} /\ sw.key = k

HostsRecorded(k) ==
  \A h \in Hosts(k) : \E n \in serviceUpstreamNodes[k] : h = Address(k, n)

RecordedCurrent(k) ==
  \A n \in serviceUpstreamNodes[k] :
    /\ n.name \in DOMAIN nodes
    /\ nodes[n.name].internalIP = n.internalIP
    /\ nodes[n.name].externalIP = n.externalIP

\* The file of k is as its object, its endpoints and the nodes call for.
Current(k) ==
  /\ ConfigName(k) \in DOMAIN files
  /\ SpecNow(k).upstreamType # "node" => HasConfig(k, generateStreamNginxConfig(SpecNow(k), nodes))
  /\ ToNodes(k, "all") => HostsRecorded(k) /\ RecordedCurrent(k)

Accounted(k) == \/ Due(k) \/ EndpointsDue(k) \/ NodesDue(k)
                \/ SyncFresh(k)
                \/ Current(k) /\ ~Syncing(k)

ServedAccounted == \A k \in Served : Accounted(k)

\* A file of a service that is gone is about to be removed, and what is going
\* to be written for one is going to be followed by another sync.
GoingAway(k) ==
  /\ ConfigName(k) \in DOMAIN files => Due(k) \/ (sw.pc \in {"read", "delete"} /\ sw.key = k)
  /\ sw.pc \in {"topo", "ports", "write"} /\ sw.key = k => Due(k)

DeletedAccounted == \A k \in Keys \ DOMAIN servicesStore : GoingAway(k)

-----------------------------------------------------------------------------
\* The nodes worker syncs n and has read nothing that has changed since.
NodeFresh(n) ==
  /\ nw.pc # "idle" /\ nw.key = n
  /\ \/ nw.pc = "read"
     \/ nw.pc = "update" /\ n \in DOMAIN nodesStore /\ nw.node = NodeOf(n, nodesStore[n])
     \/ nw.pc = "delete" /\ n \notin DOMAIN nodesStore

NodeCurrent(n) ==
  /\ n \in DOMAIN nodes => n \in DOMAIN nodesStore
  /\ n \in DOMAIN nodesStore /\ ~nodesStore[n].unschedulable =>
       n \in DOMAIN nodes /\ nodes[n] = NodeOf(n, nodesStore[n])

NodeAccounted(n) ==
  \/ n \in nevent \cup nq.dirty
  \/ NodeFresh(n)
  \/ NodeCurrent(n) /\ ~(nw.pc \in {"update", "delete"} /\ nw.key = n)

NodesAccounted == \A n \in NodeNames \ missed : NodeAccounted(n)

IInv == Shape /\ ServedAccounted /\ DeletedAccounted /\ NodesAccounted

\* The steps that are neither of the informer nor of the worker of the services.
OtherStep == \/ StartServices \/ Handlers \/ EndpointsWorker \/ NodesWorker
             \/ \E k \in Keys : EndpointsChange(k)
             \/ \E n \in NodeNames : NodeChange(n) \/ NodeDeletionMissed(n)

\* The object and the endpoints of the service k stay as they are.
SameObjects(k) ==
  /\ k \in DOMAIN servicesStore /\ k \in DOMAIN servicesStore'
  /\ servicesStore'[k] = servicesStore[k]
  /\ getServiceEndpoints(endpointStore', k) = getServiceEndpoints(endpointStore, k)

-----------------------------------------------------------------------------
(* Preliminaries *)

\* lbex starts with no service and no node, and no file.
LEMMA InitIInv == Init => IInv
<1> SUFFICES ASSUME Init PROVE IInv
  OBVIOUS
<1>1. DOMAIN <<>> = {}
  OBVIOUS
<1>2. nw.pc = "idle" /\ sw.pc = "idle"
  BY Zenon DEF Init, Idle
<1>3. ServedAccounted /\ DeletedAccounted /\ NodesAccounted
  BY Zenon, <1>1, <1>2 DEF Init, CfgtorInit, ServedAccounted, Served, DeletedAccounted,
     GoingAway, NodesAccounted, NodeAccounted, NodeCurrent
<1> QED BY Zenon, <1>3, InitShape DEF IInv

-----------------------------------------------------------------------------
(* Candidate nodes *)

\* The informer of the nodes: a node that changes has an event, the others are
\* accounted for as before.
LEMMA NodeChangeAccounted ==
  ASSUME Shape, NodesAccounted, NEW m \in NodeNames, NodeChange(m)
  PROVE  NodesAccounted'
<1>1. UNCHANGED <<nodes, nw, nq>> /\ nevent = {} /\ nevent' = {m} /\ missed' = missed \ {m}
  BY Zenon DEF NodeChange, cfgtorVars, queues, workers
<1>2. ASSUME NEW n \in NodeNames \ missed', n # m PROVE NodeAccounted(n)'
  <2>1. n \in DOMAIN nodesStore' <=> n \in DOMAIN nodesStore
    BY SMTT(30), <1>2 DEF NodeChange, Put, Drop
  <2>2. n \in DOMAIN nodesStore => nodesStore'[n] = nodesStore[n]
    BY Zenon, <1>2 DEF NodeChange, Put, Drop
  <2>3. NodeAccounted(n)
    BY Zenon, <1>1, <1>2 DEF NodesAccounted
  <2> QED
    BY Zenon, <1>1, <2>1, <2>2, <2>3 DEF NodeAccounted, NodeFresh, NodeCurrent
<1>3. NodeAccounted(m)'
  BY Zenon, <1>1 DEF NodeAccounted
<1> QED BY Zenon, <1>2, <1>3 DEF NodesAccounted

\* A deletion that the informer was not told of is not accounted for.
LEMMA NodeDeletionMissedAccounted ==
  ASSUME Shape, NodesAccounted, NEW m \in NodeNames, NodeDeletionMissed(m)
  PROVE  NodesAccounted'
<1>1. UNCHANGED <<nodes, nw, nq, nevent>> /\ missed' = missed \cup {m}
  BY Zenon DEF NodeDeletionMissed, cfgtorVars, queues, workers, events
<1>2. ASSUME NEW n \in NodeNames \ missed' PROVE NodeAccounted(n)'
  <2>1. n \in DOMAIN nodesStore' <=> n \in DOMAIN nodesStore
    BY Zenon, <1>1, <1>2 DEF NodeDeletionMissed, Drop
  <2>2. n \in DOMAIN nodesStore => nodesStore'[n] = nodesStore[n]
    BY Zenon, <1>1, <1>2 DEF NodeDeletionMissed, Drop
  <2>3. NodeAccounted(n)
    BY Zenon, <1>1, <1>2 DEF NodesAccounted
  <2> QED
    BY Zenon, <1>1, <2>1, <2>2, <2>3 DEF NodeAccounted, NodeFresh, NodeCurrent
<1> QED BY Zenon, <1>2 DEF NodesAccounted

\* An event becomes a key in the queue.
LEMMA NodeHandlerAccounted ==
  ASSUME Shape, NodesAccounted, NEW m \in nevent, NodeHandler(m)
  PROVE  NodesAccounted'
<1>1. UNCHANGED <<nodes, nw, nodesStore, missed>> /\ nevent' = nevent \ {m}
  BY Zenon DEF NodeHandler, cfgtorVars, stores, workers
<1>2. nq'.dirty = nq.dirty \cup {m}
  BY Zenon, QueueAdd DEF NodeHandler, Shape, QueuesOK, StoresOK
<1> QED
  BY ZenonT(60), <1>1, <1>2 DEF NodesAccounted, NodeAccounted, NodeFresh, NodeCurrent

\* AddOrUpdateNode leaves the other nodes alone.
LEMMA OtherNodes ==
  ASSUME NEW n, NEW m, n # m, NEW node, node.name = m, AddOrUpdateNode(node)
  PROVE  /\ n \in DOMAIN nodes' <=> n \in DOMAIN nodes
         /\ n \in DOMAIN nodes => nodes'[n] = nodes[n]
BY Zenon DEF AddOrUpdateNode

\* AddOrUpdateNode with the node as it is in the cluster.
LEMMA NodesUpdateAccounted ==
  ASSUME Shape, NodesAccounted, NodesUpdate, UNCHANGED <<nodesStore, nevent, missed>>
  PROVE  NodesAccounted'
<1>0. PICK m : m = nw.key
  OBVIOUS
<1>1. nw.node.name = m /\ AddOrUpdateNode(nw.node)
  BY Zenon, <1>0 DEF NodesUpdate, Shape, WorkersOK, IsNode
<1>2. nw'.pc = "enqueue" /\ nw'.key = m /\ nw.pc = "update" /\ nq' = nq
  BY Zenon, <1>0 DEF NodesUpdate
<1>3. ASSUME NEW n \in NodeNames \ missed, n # m PROVE NodeAccounted(n)'
  <2>1. /\ n \in DOMAIN nodes' <=> n \in DOMAIN nodes
        /\ n \in DOMAIN nodes => nodes'[n] = nodes[n]
    BY Zenon, <1>1, <1>3, OtherNodes
  <2>2. NodeAccounted(n)
    BY Zenon, <1>3 DEF NodesAccounted
  <2> QED
    BY Zenon, <1>0, <1>2, <1>3, <2>1, <2>2 DEF NodeAccounted, NodeFresh, NodeCurrent
<1>4. ASSUME m \in NodeNames \ missed PROVE NodeAccounted(m)'
  <2>1. CASE m \in nevent \cup nq.dirty
    BY Zenon, <2>1, <1>2 DEF NodeAccounted
  <2>2. CASE NodeFresh(m)
    <3>1. m \in DOMAIN nodesStore /\ nw.node = NodeOf(m, nodesStore[m])
      BY Zenon, <2>2, <1>2 DEF NodeFresh
    <3>2. NodeOf(m, nodesStore[m]).active = (~nodesStore[m].unschedulable)
      BY Zenon DEF NodeOf
    <3>3. NodeCurrent(m)'
      BY ZenonT(60), <1>1, <3>1, <3>2 DEF NodeCurrent, AddOrUpdateNode
    <3> QED BY Zenon, <3>3, <1>2 DEF NodeAccounted
  <2> QED BY Zenon, <1>0, <1>2, <1>4, <2>1, <2>2 DEF NodesAccounted, NodeAccounted
<1> QED BY Zenon, <1>3, <1>4 DEF NodesAccounted

\* DeleteNode.
LEMMA NodesDeleteAccounted ==
  ASSUME Shape, NodesAccounted, NodesDelete, UNCHANGED <<nodesStore, nevent, missed>>
  PROVE  NodesAccounted'
<1>0. PICK m : m = nw.key
  OBVIOUS
<1>1. nw'.pc = "enqueue" /\ nw'.key = m /\ nw.pc = "delete" /\ nq' = nq
  BY Zenon, <1>0 DEF NodesDelete
<1>2. /\ m \notin DOMAIN nodes'
      /\ \A n : n # m => /\ n \in DOMAIN nodes' <=> n \in DOMAIN nodes
                         /\ n \in DOMAIN nodes => nodes'[n] = nodes[n]
  <2>1. CASE m \in DOMAIN nodes
    <3>1. InactiveCopy(m).name = m /\ ~InactiveCopy(m).active
      BY Zenon, <2>1, InactiveNode DEF Shape, CfgtorOK
    <3>2. AddOrUpdateNode(InactiveCopy(m))
      BY Zenon, <1>0, <2>1 DEF NodesDelete
    <3>3. m \notin DOMAIN nodes'
      BY Zenon, <2>1, <3>1, <3>2 DEF AddOrUpdateNode
    <3> QED BY Zenon, <3>1, <3>2, <3>3, OtherNodes
  <2>2. CASE m \notin DOMAIN nodes
    BY Zenon, <1>0, <2>2 DEF NodesDelete, cfgtorVars
  <2> QED BY Zenon, <2>1, <2>2
<1>3. ASSUME NEW n \in NodeNames \ missed, n # m PROVE NodeAccounted(n)'
  <2>1. NodeAccounted(n)
    BY Zenon, <1>3 DEF NodesAccounted
  <2> QED
    BY ZenonT(60), <1>0, <1>1, <1>2, <1>3, <2>1 DEF NodeAccounted, NodeFresh, NodeCurrent
<1>4. ASSUME m \in NodeNames \ missed PROVE NodeAccounted(m)'
  <2>1. CASE m \in nevent \cup nq.dirty
    BY Zenon, <2>1, <1>1 DEF NodeAccounted
  <2>2. CASE NodeFresh(m)
    BY Zenon, <1>1, <1>2, <2>2 DEF NodeAccounted, NodeFresh, NodeCurrent
  <2> QED BY ZenonT(60), <1>0, <1>1, <1>4, <2>1, <2>2 DEF NodesAccounted, NodeAccounted
<1> QED BY Zenon, <1>3, <1>4 DEF NodesAccounted

\* Every step keeps the nodes accounted for.
LEMMA NodesAccountedStep ==
  ASSUME Shape, NodesAccounted, [Next]_vars
  PROVE  NodesAccounted'
<1>1. CASE UNCHANGED <<nevent, nq, nw, nodesStore, nodes, missed>>
  BY ZenonT(60), <1>1 DEF NodesAccounted, NodeAccounted, NodeFresh, NodeCurrent
<1>2. CASE NodesWorker
  <2> USE DEF NodesWorker, stores, events
  <2>1. CASE NodesGet
    <3>1. nw'.pc = "read" /\ nw'.key = Head(nq.queue) /\ nq' = Get(nq) /\ nw.pc = "idle" /\ HasItem(nq)
      BY Zenon, <2>1 DEF NodesGet
    <3>2. nq'.dirty = nq.dirty \ {nw'.key}
      BY Zenon, <3>1, QueueGet DEF Shape, QueuesOK
    <3>3. UNCHANGED <<nevent, nodesStore, nodes, missed>>
      BY ZenonT(60), <1>2, <2>1 DEF NodesGet, cfgtorVars
    <3> QED
      BY Zenon, <3>1, <3>2, <3>3 DEF NodesAccounted, NodeAccounted, NodeFresh, NodeCurrent
  <2>2. CASE NodesRead
    BY ZenonT(60), <1>2, <2>2 DEF NodesRead, cfgtorVars, NodesAccounted, NodeAccounted, NodeFresh, NodeCurrent
  <2>3. CASE NodesUpdate
    BY Zenon, <1>2, <2>3, NodesUpdateAccounted
  <2>4. CASE NodesDelete
    BY ZenonT(60), <1>2, <2>4, NodesDeleteAccounted
  <2>5. CASE NodesAdd \/ \E k \in Keys : NodesLookup(k)
    <3>1. UNCHANGED <<nevent, nodesStore, missed>>
      BY ZenonT(60), <1>2
    <3>2. UNCHANGED <<nq, nodes>>
      BY ZenonT(60), <2>5 DEF NodesAdd, NodesLookup, cfgtorVars
    <3>3. nw.pc = "enqueue" \/ nw.pc = "add"
      BY ZenonT(60), <2>5 DEF NodesAdd, NodesLookup
    <3>4. nw'.pc = "enqueue" \/ nw'.pc = "add"
      <4>1. CASE NodesAdd
        BY ZenonT(60), <4>1 DEF NodesAdd
      <4>2. ASSUME NEW k \in Keys, NodesLookup(k) PROVE nw'.pc = "enqueue" \/ nw'.pc = "add"
        BY ZenonT(60), <4>2 DEF NodesLookup
      <4> QED BY ZenonT(60), <2>5, <4>1, <4>2
    <3> QED
      BY ZenonT(60), <3>1, <3>2, <3>3, <3>4 DEF NodesAccounted, NodeAccounted, NodeFresh, NodeCurrent
  <2>6. CASE NodesDone
    <3>1. nq'.dirty = nq.dirty
      BY Zenon, <2>6, QueueDone DEF NodesDone, Shape, QueuesOK
    <3>2. /\ nw.pc = "enqueue" /\ nw'.pc = "idle"
          /\ UNCHANGED <<nevent, nodesStore, nodes, missed>>
      BY Zenon, <1>2, <2>6 DEF NodesDone, cfgtorVars, Idle
    <3> QED
      BY Zenon, <3>1, <3>2 DEF NodesAccounted, NodeAccounted, NodeFresh, NodeCurrent
  <2> QED BY ZenonT(60), <1>2, <2>1, <2>2, <2>3, <2>4, <2>5, <2>6
<1>3. CASE ServicesWorker \/ EndpointsWorker \/ StartServices \/ UNCHANGED vars
        \/ (\E k \in Keys : ServiceChange(k) \/ EndpointsChange(k))
        \/ (\E k \in sevent : ServiceHandler(k)) \/ (\E k \in eevent : EndpointsHandler(k))
  <2>1. UNCHANGED <<nevent, nq, nw, nodesStore, missed>>
    BY ZenonT(60), <1>3 DEF ServicesWorker, EndpointsWorker, StartServices, ServiceChange, EndpointsChange,
       ServiceHandler, EndpointsHandler, vars, events, queues, workers, stores
  <2>2. nodes' = nodes
    BY Zenon, <1>3 DEF ServicesWorker, EndpointsWorker, StartServices, ServiceChange, EndpointsChange,
       ServiceHandler, EndpointsHandler, vars, cfgtorVars, ServicesGet, ServicesRead, ServicesTopo,
       ServicesPort, ServicesWrite, ServicesDelete, ServicesDone, AddOrUpdateService,
       DeleteConfiguration
  <2> QED BY ZenonT(60), <1>1, <2>1, <2>2
<1> QED
  BY ZenonT(60), <1>2, <1>3, NodeChangeAccounted, NodeDeletionMissedAccounted, NodeHandlerAccounted
     DEF Next, Changes, Handlers

-----------------------------------------------------------------------------
(* Deleted services *)

\* The informer of the services.
LEMMA ServiceChangeDeleted ==
  ASSUME Shape, DeletedAccounted, NEW j \in Keys, ServiceChange(j)
  PROVE  DeletedAccounted'
<1>1. UNCHANGED <<files, sw, sq>> /\ sevent = {} /\ sevent' = Handled(j)
  BY ZenonT(60) DEF ServiceChange, cfgtorVars, queues, workers
<1>2. ASSUME NEW k \in Keys, k \notin DOMAIN servicesStore', k # j PROVE GoingAway(k)'
  <2>1. k \notin DOMAIN servicesStore
    BY Zenon, <1>2 DEF ServiceChange, Put, Drop
  <2>2. GoingAway(k)
    BY Zenon, <1>2, <2>1 DEF DeletedAccounted
  <2> QED BY Zenon, <1>1, <2>2 DEF GoingAway, Due
<1>3. GoingAway(j)'
  <2>1. CASE j \in SyncedKeys
    BY Zenon, <1>1, <2>1 DEF GoingAway, Due, SyncedKeys, Handled
  <2>2. CASE j \notin SyncedKeys
    <3>1. ConfigName(j) \notin DOMAIN files
      BY Zenon, <2>2 DEF Shape, CfgtorOK
    <3>2. sw.pc # "idle" => sw.key # j
      BY Zenon, <2>2, HeldKey DEF Shape, QueuesOK
    <3> QED BY Zenon, <1>1, <3>1, <3>2 DEF GoingAway
  <2> QED BY Zenon, <2>1, <2>2
<1> QED BY Zenon, <1>2, <1>3 DEF DeletedAccounted

\* The services worker.
LEMMA ServicesWorkerDeleted ==
  ASSUME Shape, DeletedAccounted, ServicesWorker
  PROVE  DeletedAccounted'
<1>1. servicesStore' = servicesStore /\ sevent' = sevent
  BY Zenon DEF ServicesWorker, stores, events
<1> SUFFICES ASSUME NEW k \in Keys, k \notin DOMAIN servicesStore PROVE GoingAway(k)'
  BY Zenon, <1>1 DEF DeletedAccounted
<1>2. GoingAway(k)
  BY Zenon DEF DeletedAccounted
<1>3. CASE ServicesGet
  <2>1. sw'.pc = "read" /\ sw'.key = Head(sq.queue) /\ sq' = Get(sq) /\ sw.pc = "idle" /\ HasItem(sq)
    BY Zenon, <1>3 DEF ServicesGet
  <2>2. sq'.dirty = sq.dirty \ {sw'.key}
    BY Zenon, <2>1, QueueGet DEF Shape, QueuesOK
  <2>3. files' = files
    BY ZenonT(60), <1>3 DEF ServicesGet, cfgtorVars
  <2> QED BY Zenon, <1>1, <1>2, <2>1, <2>2, <2>3 DEF GoingAway, Due
<1>4. CASE ServicesRead
  BY Zenon, <1>1, <1>2, <1>4 DEF ServicesRead, cfgtorVars, GoingAway, Due
<1>5. CASE ServicesTopo \/ ServicesPort
  <2>1. /\ sw.pc \in {"topo", "ports"} /\ sw'.pc \in {"ports", "write", "done"} /\ sw'.key = sw.key
        /\ sq' = sq /\ files' = files
    BY SMTT(30), <1>5 DEF ServicesTopo, ServicesPort, cfgtorVars
  <2> QED BY ZenonT(60), <1>1, <1>2, <2>1 DEF GoingAway, Due
<1>6. CASE ServicesWrite
  <2>1. sw.pc = "write" /\ sw'.pc = "done" /\ sq' = sq
    BY Zenon, <1>6 DEF ServicesWrite
  <2>2. sw.key \in Keys
    BY Zenon, <2>1, HeldKey DEF Shape, QueuesOK, SyncedKeys
  <2>3. DOMAIN files' = DOMAIN files \cup {ConfigName(sw.key)}
    BY ZenonT(30), <1>6, <2>1 DEF ServicesWrite, AddOrUpdateService, WriteFile, SpecOf, Shape, WorkersOK
  <2>4. ConfigName(k) = ConfigName(sw.key) => k = sw.key
    BY Zenon, <2>2, ConfigNamesAssumption
  <2> QED BY Zenon, <1>1, <1>2, <2>1, <2>3, <2>4 DEF GoingAway, Due
<1>7. CASE ServicesDelete
  <2>1. sw.pc = "delete" /\ sw'.pc = "done" /\ sq' = sq /\ DOMAIN files' = DOMAIN files \ {ConfigName(sw.key)}
    BY Zenon, <1>7 DEF ServicesDelete, DeleteConfiguration, RemoveFile
  <2> QED BY ZenonT(60), <1>1, <1>2, <2>1 DEF GoingAway, Due
<1>8. CASE ServicesDone
  <2>1. sq'.dirty = sq.dirty
    BY Zenon, <1>8, QueueDone DEF ServicesDone, Shape, QueuesOK
  <2>2. sw.pc = "done" /\ sw'.pc = "idle" /\ files' = files
    BY Zenon, <1>8 DEF ServicesDone, cfgtorVars, Idle
  <2> QED BY Zenon, <1>1, <1>2, <2>1, <2>2 DEF GoingAway, Due
<1> QED BY ZenonT(60), <1>3, <1>4, <1>5, <1>6, <1>7, <1>8 DEF ServicesWorker

\* A sync that is due stays so until the services worker takes the key.
LEMMA SyncsStayDue ==
  ASSUME Shape, OtherStep
  PROVE  \A k : Due(k) => Due(k)'
<1>1. CASE sevent' = sevent /\ sq' = sq
  BY Zenon, <1>1 DEF Due
<1>2. ASSUME NEW k \in sevent, ServiceHandler(k) PROVE \A i : Due(i) => Due(i)'
  <2>1. sq'.dirty = sq.dirty \cup {k} /\ sevent' = sevent \ {k}
    BY Zenon, <1>2, QueueAdd DEF ServiceHandler, Shape, QueuesOK, StoresOK
  <2> QED BY Zenon, <2>1 DEF Due
<1>3. CASE EndpointsWorker
  <2>1. CASE EndpointsAdd
    <3>1. ew.pc # "idle"
      BY Zenon, <2>1 DEF EndpointsAdd
    <3>2. sq'.dirty = sq.dirty \cup {ew.key} /\ sevent' = sevent
      BY Zenon, <1>3, <2>1, <3>1, HeldKey, QueueAdd
         DEF EndpointsAdd, EndpointsWorker, events, Shape, QueuesOK
    <3> QED BY Zenon, <3>2 DEF Due
  <2> QED
    BY ZenonT(60), <1>1, <1>3, <2>1 DEF EndpointsWorker, EndpointsGet, EndpointsRead, EndpointsTopo, EndpointsPort,
       EndpointsLookup, EndpointsDone, events
<1>4. CASE NodesWorker
  <2>1. CASE NodesAdd
    <3>1. nw.svc \in SyncedKeys
      BY ZenonT(60), <2>1 DEF NodesAdd, Shape, WorkersOK
    <3>2. sq'.dirty = sq.dirty \cup {nw.svc} /\ sevent' = sevent
      BY ZenonT(60), <1>4, <2>1, <3>1, QueueAdd DEF NodesAdd, NodesWorker, events, Shape, QueuesOK
    <3> QED BY ZenonT(60), <3>2 DEF Due
  <2> QED
    BY ZenonT(60), <1>1, <1>4, <2>1 DEF NodesWorker, NodesGet, NodesRead, NodesUpdate, NodesDelete, NodesLookup,
       NodesDone, events
<1>5. CASE \/ StartServices \/ \E k \in Keys : EndpointsChange(k)
           \/ \E n \in NodeNames : NodeChange(n) \/ NodeDeletionMissed(n)
           \/ \E k \in eevent : EndpointsHandler(k)
           \/ \E n \in nevent : NodeHandler(n)
  BY ZenonT(30), <1>1, <1>5 DEF StartServices, EndpointsChange, NodeChange, NodeDeletionMissed, EndpointsHandler,
     NodeHandler, events, queues
<1> QED BY Zenon, <1>2, <1>3, <1>4, <1>5 DEF OtherStep, Handlers

\* Every step keeps the deleted services accounted for.
LEMMA DeletedAccountedStep ==
  ASSUME Shape, DeletedAccounted, [Next]_vars
  PROVE  DeletedAccounted'
<1>1. CASE UNCHANGED vars
  BY Zenon, <1>1 DEF vars, cfgtorVars, stores, events, queues, workers, DeletedAccounted, GoingAway, Due
<1>2. CASE OtherStep
  <2>1. UNCHANGED <<servicesStore, files, sw>>
    BY Zenon, <1>2 DEF OtherStep, Handlers, EndpointsChange, NodeChange, NodeDeletionMissed,
       ServiceHandler, EndpointsHandler, NodeHandler, StartServices, EndpointsWorker, NodesWorker,
       NodesGet, NodesRead, NodesUpdate, NodesDelete, NodesLookup, NodesAdd, NodesDone, AddOrUpdateNode,
       stores, workers, cfgtorVars
  <2>2. \A k : Due(k) => Due(k)'
    BY Zenon, <1>2, SyncsStayDue
  <2> QED BY Zenon, <2>1, <2>2 DEF DeletedAccounted, GoingAway
<1> QED
  BY Zenon, <1>1, <1>2, ServiceChangeDeleted, ServicesWorkerDeleted DEF Next, Changes, OtherStep

-----------------------------------------------------------------------------
(* Served services: what a step leaves alone *)

\* What the service calls for depends on its own object and endpoints.
LEMMA SameSpec ==
  ASSUME NEW k, SameObjects(k)
  PROVE  Topo(k)' = Topo(k) /\ SpecNow(k)' = SpecNow(k) /\ (k \in Served' <=> k \in Served)
<1>1. Topo(k)' = Topo(k)
  BY Zenon DEF SameObjects, Topo, getServiceNetworkTopo, Balanced
<1>2. SpecNow(k)' = SpecNow(k)
  BY Zenon, <1>1 DEF SameObjects, SpecNow
<1> QED
  BY Zenon, <1>1, <1>2 DEF SameObjects, Served

\* What the endpoints worker has read of it stays current.
LEMMA EndpointsDueKept ==
  ASSUME NEW k, SameObjects(k), ew' = ew, k \in eevent \cup eq.dirty => k \in eevent' \cup eq'.dirty,
         EndpointsDue(k)
  PROVE  EndpointsDue(k)'
<1>1. CASE k \in eevent \cup eq.dirty
  BY Zenon, <1>1 DEF EndpointsDue
<1>2. CASE ew.pc # "idle" /\ ew.key = k
  <2>1. ReadsCurrent(ew) => ReadsCurrent(ew)'
    BY Zenon, <1>2 DEF SameObjects, ReadsCurrent
  <2> QED BY Zenon, <1>2, <2>1 DEF EndpointsDue
<1> QED BY Zenon, <1>1, <1>2 DEF EndpointsDue

\* What the services worker has read of it stays current.
LEMMA SyncFreshKept ==
  ASSUME NEW k, SameObjects(k), sw' = sw, SyncFresh(k)
  PROVE  SyncFresh(k)'
<1>1. sw.key = k
  BY Zenon DEF SyncFresh
<1>2. ReadsCurrent(sw) => ReadsCurrent(sw)'
  BY Zenon, <1>1 DEF SameObjects, ReadsCurrent
<1>3. Topo(k)' = Topo(k)
  BY Zenon, SameSpec
<1> QED BY Zenon, <1>2, <1>3 DEF SyncFresh, SameObjects

\* A file that is as it has to be stays so.
LEMMA CurrentKept ==
  ASSUME NEW k, SameObjects(k), nodes' = nodes, serviceUpstreamNodes'[k] = serviceUpstreamNodes[k],
         ConfigName(k) \in DOMAIN files', files'[ConfigName(k)] = files[ConfigName(k)],
         Current(k)
  PROVE  Current(k)'
<1>1. SpecNow(k)' = SpecNow(k)
  BY Zenon, SameSpec
<1>2. \A n : Address(k, n)' = Address(k, n)
  BY Zenon DEF SameObjects, Address
<1>3. ToNodes(k, "all")' <=> ToNodes(k, "all")
  BY Zenon, <1>1 DEF SameObjects, ToNodes
<1>4. HostsRecorded(k) => HostsRecorded(k)'
  BY Zenon, <1>2 DEF HostsRecorded, Hosts, Address, SameObjects
<1>5. RecordedCurrent(k) => RecordedCurrent(k)'
  BY Zenon DEF RecordedCurrent
<1>6. HasConfig(k, generateStreamNginxConfig(SpecNow(k), nodes))
        => HasConfig(k, generateStreamNginxConfig(SpecNow(k), nodes))'
  BY Zenon, <1>1 DEF HasConfig
<1> QED BY Zenon, <1>1, <1>3, <1>4, <1>5, <1>6 DEF Current

\* A service that a step does not touch stays accounted for.
LEMMA Undisturbed ==
  ASSUME NEW k, SameObjects(k), UNCHANGED <<sw, ew, nw, nodes, serviceUpstreamNodes, files>>,
         Due(k) => Due(k)', k \in eevent \cup eq.dirty => k \in eevent' \cup eq'.dirty,
         Accounted(k)
  PROVE  Accounted(k)'
<1>1. CASE Due(k)
  BY Zenon, <1>1 DEF Accounted
<1>2. CASE EndpointsDue(k)
  BY Zenon, <1>2, EndpointsDueKept DEF Accounted
<1>3. CASE NodesDue(k)
  <2>1. NodesDue(k)'
    BY Zenon, <1>3 DEF NodesDue
  <2> QED BY Zenon, <2>1 DEF Accounted
<1>4. CASE SyncFresh(k)
  BY Zenon, <1>4, SyncFreshKept DEF Accounted
<1>5. CASE Current(k) /\ ~Syncing(k)
  <2>1. ConfigName(k) \in DOMAIN files
    BY Zenon, <1>5 DEF Current
  <2>2. Current(k)'
    BY Zenon, <1>5, <2>1, CurrentKept
  <2>3. ~Syncing(k)'
    BY Zenon, <1>5 DEF Syncing
  <2> QED BY Zenon, <2>2, <2>3 DEF Accounted
<1> QED BY Zenon, <1>1, <1>2, <1>3, <1>4, <1>5 DEF Accounted

-----------------------------------------------------------------------------
(* Reading the endpoints port by port *)

\* Append on a sequence of anything.
LEMMA AppendSeq ==
  ASSUME NEW s, s \in Seq(Range(s)), NEW x
  PROVE  /\ Append(s, x) \in Seq(Range(Append(s, x)))
         /\ Len(s) \in Nat /\ Len(Append(s, x)) = Len(s) + 1
         /\ \A i \in 1..Len(s) : Append(s, x)[i] = s[i]
         /\ Append(s, x)[Len(s) + 1] = x
<1> DEFINE t == Append(s, x)
<1>1. /\ t \in Seq(Range(s) \cup {x}) /\ Len(s) \in Nat /\ Len(t) = Len(s) + 1
      /\ \A i \in 1..Len(s) : t[i] = s[i]
      /\ t[Len(s) + 1] = x
      /\ DOMAIN t = 1..Len(t)
  OBVIOUS
<1> HIDE DEF t
<1>2. \A i \in 1..Len(t) : t[i] \in Range(t)
  BY Zenon, <1>1 DEF Range
<1>3. t \in Seq(Range(t))
  BY SMTT(30), <1>1, <1>2
<1> QED BY Zenon, <1>1, <1>3 DEF t

\* A served service is for lbex and so has a port.
LEMMA ServedHasPorts ==
  ASSUME Shape, NEW k \in Served
  PROVE  LET P == servicesStore[k].ports
         IN /\ k \in SyncedKeys /\ k \in DOMAIN servicesStore
            /\ Balanced(cfg, servicesStore, k)
            /\ Len(P) \in Nat /\ Len(P) > 0 /\ DOMAIN P = 1..Len(P)
            /\ Topo(k) # <<>>
            /\ Topo(k) = SortedTopo(P, [i \in DOMAIN P |->
                            getEndpoints(getServiceEndpoints(endpointStore, k), P[i])])
<1> DEFINE P == servicesStore[k].ports
<1>1. k \in DOMAIN servicesStore /\ ~InKubeSystem(k) /\ Topo(k) # <<>>
  BY Zenon DEF Served
<1>2. servicesStore[k] \in Services /\ KeyOf(servicesStore[k]) = k
  BY Zenon, <1>1 DEF Shape, StoresOK
<1>3. k \in SyncedKeys /\ Len(P) \in Nat /\ DOMAIN P = 1..Len(P)
  BY Zenon, <1>1, <1>2, ServicesAssumption DEF SyncedKeys
<1>4. Balanced(cfg, servicesStore, k)
  <2>1. ~Balanced(cfg, servicesStore, k) => Topo(k) = <<>>
    BY Zenon DEF Topo, getServiceNetworkTopo
  <2> QED BY Zenon, <1>1, <2>1
<1>5. PICK i \in DOMAIN P : PortAnnotation(servicesStore[k], i).ok
  BY Zenon, <1>4 DEF Balanced, Managed, baseCheck
<1>6. Len(P) > 0
  BY SMTT(30), <1>3, <1>5
<1>7. Topo(k) = SortedTopo(P, [n \in DOMAIN P |->
                  getEndpoints(getServiceEndpoints(endpointStore, k), P[n])])
  BY Zenon, <1>4 DEF Topo, getServiceNetworkTopo
<1> HIDE DEF P
<1> QED BY Zenon, <1>1, <1>3, <1>4, <1>6, <1>7 DEF P

\* Reading the endpoints of the next port keeps what has been read current, and
\* with the last port the targets are those of the service.
LEMMA NextPort ==
  ASSUME Shape, NEW k \in Served, NEW w, w.key = k, ReadsCurrent(w)
  PROVE  LET e == WithNextPort(w)
         IN /\ e \in Seq(Range(e)) /\ Len(e) \in Nat /\ Len(w.ports) \in Nat
            /\ \A i \in 1..Len(e) : e[i] = getEndpoints(getServiceEndpoints(endpointStore, k), w.ports[i])
            /\ ~(Len(e) < Len(w.ports)) => SortedTopo(w.ports, e) = Topo(k)
<1> DEFINE P == w.ports
           s == w.endpoints
           G(i) == getEndpoints(getServiceEndpoints(endpointStore, k), P[i])
           e == WithNextPort(w)
<1>1. e = Append(s, G(Len(s) + 1))
  BY Zenon DEF WithNextPort
<1>2. /\ e \in Seq(Range(e)) /\ Len(s) \in Nat /\ Len(e) = Len(s) + 1
      /\ \A i \in 1..Len(s) : e[i] = s[i]
      /\ e[Len(s) + 1] = G(Len(s) + 1)
  <2>1. s \in Seq(Range(s))
    BY Zenon DEF ReadsCurrent
  <2> HIDE DEF s, G, e
  <2> QED BY SMTT(30), <1>1, <2>1, AppendSeq
<1>3. \A i \in 1..Len(s) : s[i] = G(i)
  BY Zenon DEF ReadsCurrent
<1>4. /\ P = servicesStore[k].ports /\ Len(s) < Len(P)
      /\ Len(P) \in Nat /\ DOMAIN P = 1..Len(P)
      /\ Topo(k) = SortedTopo(P, [i \in DOMAIN P |-> G(i)])
  BY Zenon, ServedHasPorts DEF ReadsCurrent
<1> HIDE DEF P, s, G, e
<1>5. \A i \in 1..Len(e) : i \in 1..Len(s) \/ i = Len(s) + 1
  BY SMTT(30), <1>2
<1>6. \A i \in 1..Len(e) : e[i] = G(i)
  BY Zenon, <1>2, <1>3, <1>5
<1>7. ASSUME ~(Len(e) < Len(P)) PROVE SortedTopo(P, e) = Topo(k)
  <2>1. Len(e) = Len(P) /\ Len(e) \in Nat
    BY SMTT(30), <1>2, <1>4, <1>7
  <2>2. e = [i \in DOMAIN P |-> G(i)]
    BY SMTT(30), <2>1, <1>2, <1>4, <1>6
  <2> QED BY ZenonT(60), <2>2, <1>4
<1>8. Len(e) \in Nat
  BY SMTT(30), <1>2
<1> QED BY ZenonT(60), <1>2, <1>4, <1>6, <1>7, <1>8 DEF P, G, e
=============================================================================
