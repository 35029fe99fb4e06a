----------------------------- MODULE SharedLemmas ----------------------------
(***************************************************************************)
(* Lemmas about the two modules that several components are built on, for  *)
(* any keys, services and nodes: what the methods of the work queue do,    *)
(* and what a generated stream configuration depends on.                   *)
(***************************************************************************)
EXTENDS WorkQueue, StreamConfig, TLAPS

-----------------------------------------------------------------------------
(* The work queue *)

\* Add keeps the work queue well typed and consistent, adds at most its key
\* to dirty, and leaves processing and shuttingDown alone (queue.go, Add).
LEMMA AddLemma ==
  ASSUME NEW K, NEW w \in QueueType(K), Consistent(w), NEW k \in K
  PROVE  /\ Add(w, k) \in QueueType(K)
         /\ Consistent(Add(w, k))
         /\ ~w.shuttingDown => Add(w, k).dirty = w.dirty \cup {k}
         /\ Add(w, k).processing = w.processing
         /\ Add(w, k).shuttingDown = w.shuttingDown
         /\ w.shuttingDown => Add(w, k) = w
<1>1. CASE w.shuttingDown \/ k \in w.dirty
  BY Zenon, <1>1 DEF Add, QueueType
<1>2. CASE ~(w.shuttingDown \/ k \in w.dirty)
  <2>1. CASE k \in w.processing
    BY ZenonT(60), <1>2, <2>1 DEF Add, QueueType, Consistent
  <2>2. CASE k \notin w.processing
    <3> DEFINE s == Append(w.queue, k)
               v == [w EXCEPT !.dirty = w.dirty \cup {k}, !.queue = s]
    <3>1. Add(w, k) = v
      BY Zenon, <1>2, <2>2 DEF Add, QueueType
    <3>2. /\ w.queue \in Seq(K) /\ s \in Seq(K)
          /\ Len(s) = Len(w.queue) + 1 /\ Len(w.queue) \in Nat
          /\ \A i \in 1..Len(w.queue) : s[i] = w.queue[i]
          /\ s[Len(s)] = k
      BY SMTT(30) DEF QueueType
    <3>3. /\ v \in QueueType(K)
          /\ v.queue = s /\ v.dirty = w.dirty \cup {k}
          /\ v.processing = w.processing /\ v.shuttingDown = w.shuttingDown
      BY Zenon, <3>2 DEF QueueType
    <3> HIDE DEF s, v
    <3>8. \A i \in 1..Len(s) : i \in 1..Len(w.queue) \/ (i = Len(s) /\ s[i] = k)
      BY SMTT(30), <3>2
    <3>9. /\ \A i \in 1..Len(w.queue) : w.queue[i] \in w.dirty /\ w.queue[i] \notin w.processing
          /\ \A i, j \in 1..Len(w.queue) : w.queue[i] = w.queue[j] => i = j
      BY Zenon DEF Consistent
    <3>4. \A i \in 1..Len(s) : s[i] \in v.dirty /\ s[i] \notin v.processing
      BY ZenonT(60), <2>2, <3>2, <3>3, <3>8, <3>9
    <3>5. \A i, j \in 1..Len(s) : s[i] = s[j] => i = j
      BY ZenonT(60), <1>2, <3>2, <3>8, <3>9
    <3>6. \A x \in v.dirty : x \in v.processing \/ \E i \in 1..Len(s) : s[i] = x
      <4> TAKE x \in v.dirty
      <4>1. CASE x = k
        BY SMTT(30), <4>1, <3>2
      <4>2. CASE x \in w.dirty /\ x \notin w.processing
        <5>1. PICK i \in 1..Len(w.queue) : w.queue[i] = x
          BY Zenon, <4>2 DEF Consistent
        <5>2. i \in 1..Len(s) /\ s[i] = x
          BY SMTT(30), <5>1, <3>2
        <5> QED BY Zenon, <5>2
      <4> QED BY Zenon, <4>1, <4>2, <3>3
    <3>7. Consistent(v)
      BY ZenonT(60), <3>3, <3>4, <3>5, <3>6 DEF Consistent
    <3> QED BY Zenon, <1>2, <3>1, <3>3, <3>7
  <2> QED BY Zenon, <2>1, <2>2
<1> QED BY Zenon, <1>1, <1>2

\* Get hands out a dirty key that nobody holds, moves it from dirty to
\* processing and keeps the queue well typed and consistent (queue.go, Get).
LEMMA GetLemma ==
  ASSUME NEW K, NEW w \in QueueType(K), Consistent(w), HasItem(w)
  PROVE  /\ Get(w) \in QueueType(K)
         /\ Consistent(Get(w))
         /\ Head(w.queue) \in w.dirty
         /\ Get(w).dirty = w.dirty \ {Head(w.queue)}
         /\ Get(w).processing = w.processing \cup {Head(w.queue)}
         /\ Get(w).shuttingDown = w.shuttingDown
<1> DEFINE h == Head(w.queue)
           s == Tail(w.queue)
           v == Get(w)
<1>1. /\ w.queue \in Seq(K) /\ s \in Seq(K) /\ h \in K
      /\ Len(w.queue) \in Nat /\ Len(w.queue) >= 1
      /\ Len(s) = Len(w.queue) - 1
      /\ h = w.queue[1]
      /\ \A i \in 1..Len(s) : s[i] = w.queue[i + 1]
  BY SMTT(30) DEF QueueType, HasItem
<1>2. /\ v \in QueueType(K)
      /\ v.queue = s /\ v.dirty = w.dirty \ {h}
      /\ v.processing = w.processing \cup {h} /\ v.shuttingDown = w.shuttingDown
  BY Zenon, <1>1 DEF Get, QueueType
<1> HIDE DEF h, s, v
<1>3. h \in w.dirty
  BY SMTT(30), <1>1 DEF Consistent
<1>4. \A i \in 1..Len(s) : s[i] # h
  <2> TAKE i \in 1..Len(s)
  <2>1. i + 1 \in 1..Len(w.queue) /\ 1 \in 1..Len(w.queue) /\ i + 1 # 1
    BY SMTT(30), <1>1
  <2> QED BY Zenon, <2>1, <1>1 DEF Consistent
<1>5. \A i \in 1..Len(s) : s[i] \in v.dirty /\ s[i] \notin v.processing
  BY SMTT(30), <1>1, <1>2, <1>4 DEF Consistent
<1>6. \A i, j \in 1..Len(s) : s[i] = s[j] => i = j
  <2> SUFFICES ASSUME NEW i \in 1..Len(s), NEW j \in 1..Len(s), s[i] = s[j]
               PROVE  i = j
    OBVIOUS
  <2>1. i + 1 \in 1..Len(w.queue) /\ j + 1 \in 1..Len(w.queue)
    BY SMTT(30), <1>1
  <2>2. i + 1 = j + 1
    BY SMTT(30), <2>1, <1>1 DEF Consistent
  <2> QED BY SMTT(30), <2>2
<1>7. \A x \in v.dirty : x \in v.processing \/ \E i \in 1..Len(s) : s[i] = x
  <2> SUFFICES ASSUME NEW x \in v.dirty, x \notin v.processing
               PROVE  \E i \in 1..Len(s) : s[i] = x
    OBVIOUS
  <2>1. PICK i \in 1..Len(w.queue) : w.queue[i] = x
    BY Zenon, <1>2 DEF Consistent
  <2>2. i # 1
    BY Zenon, <2>1, <1>1, <1>2
  <2>3. i - 1 \in 1..Len(s) /\ s[i - 1] = x
    BY SMTT(30), <2>1, <2>2, <1>1
  <2> QED BY Zenon, <2>3
<1>8. Consistent(v)
  BY ZenonT(60), <1>2, <1>5, <1>6, <1>7 DEF Consistent
<1> QED BY Zenon, <1>2, <1>3, <1>8 DEF h, v

\* Done on the one key being processed keeps the queue well typed and
\* consistent, keeps dirty and frees processing (queue.go, Done).
LEMMA DoneLemma ==
  ASSUME NEW K, NEW w \in QueueType(K), Consistent(w), NEW k \in K, w.processing = {k}
  PROVE  /\ Done(w, k) \in QueueType(K)
         /\ Consistent(Done(w, k))
         /\ Done(w, k).dirty = w.dirty
         /\ Done(w, k).processing = {}
         /\ Done(w, k).shuttingDown = w.shuttingDown
<1> DEFINE s == Append(w.queue, k)
           v == Done(w, k)
<1>1. CASE k \notin w.dirty
  BY ZenonT(60), <1>1 DEF Done, QueueType, Consistent
<1>2. CASE k \in w.dirty
  <2>1. /\ w.queue \in Seq(K) /\ s \in Seq(K)
        /\ Len(s) = Len(w.queue) + 1 /\ Len(w.queue) \in Nat
        /\ \A i \in 1..Len(w.queue) : s[i] = w.queue[i]
        /\ s[Len(s)] = k
    BY SMTT(30) DEF QueueType
  <2>2. /\ v \in QueueType(K)
        /\ v.queue = s /\ v.dirty = w.dirty
        /\ v.processing = {} /\ v.shuttingDown = w.shuttingDown
    BY Zenon, <1>2, <2>1 DEF Done, QueueType
  <2> HIDE DEF s, v
  <2>7. \A i \in 1..Len(s) : i \in 1..Len(w.queue) \/ (i = Len(s) /\ s[i] = k)
    BY SMTT(30), <2>1
  <2>8. /\ \A i \in 1..Len(w.queue) : w.queue[i] \in w.dirty /\ w.queue[i] # k
        /\ \A i, j \in 1..Len(w.queue) : w.queue[i] = w.queue[j] => i = j
    BY Zenon DEF Consistent
  <2>3. \A i \in 1..Len(s) : s[i] \in v.dirty /\ s[i] \notin v.processing
    BY ZenonT(60), <1>2, <2>1, <2>2, <2>7, <2>8
  <2>4. \A i, j \in 1..Len(s) : s[i] = s[j] => i = j
    BY ZenonT(60), <2>1, <2>7, <2>8
  <2>5. \A x \in v.dirty : x \in v.processing \/ \E i \in 1..Len(s) : s[i] = x
    <3> TAKE x \in v.dirty
    <3>1. CASE x = k
      BY SMTT(30), <3>1, <2>1
    <3>2. CASE x # k
      <4>1. PICK i \in 1..Len(w.queue) : w.queue[i] = x
        BY Zenon, <3>2, <2>2 DEF Consistent
      <4>2. i \in 1..Len(s) /\ s[i] = x
        BY SMTT(30), <4>1, <2>1
      <4> QED BY Zenon, <4>2
    <3> QED BY Zenon, <3>1, <3>2
  <2>6. Consistent(v)
    BY ZenonT(60), <2>2, <2>3, <2>4, <2>5 DEF Consistent
  <2> QED BY Zenon, <2>2, <2>6 DEF v
<1> QED BY Zenon, <1>1, <1>2

-----------------------------------------------------------------------------
(* The stream configuration *)

\* The hosts in a configuration generated for node set "all" are addresses of
\* the nodes it was generated from (createNodesStreamUpstream).
LEMMA AllHosts ==
  ASSUME NEW spec, NEW nds,
         spec.upstreamType = "node", ValidateNodeSet(spec.svc.ann.nodeSet) = "all",
         NEW u \in generateStreamNginxConfig(spec, nds).upstreams,
         NEW a \in u.servers
  PROVE  \E n \in DOMAIN nds :
           a[1] = IF ValidateNodeAddressType(spec.svc.ann.nodeAddressType) = "internal"
                  THEN nds[n].internalIP ELSE nds[n].externalIP
<1>1. PICK j : a \in UpstreamServers(spec, spec.topology[j], nds)
  <2>1. PICK i : u = StreamUpstream(spec, nds, i)
    BY Zenon DEF generateStreamNginxConfig
  <2> QED
    BY Zenon, <2>1 DEF StreamUpstream
<1>2. a \in createNodesStreamUpstream(spec, spec.topology[j], nds)
  BY Zenon, <1>1 DEF UpstreamServers
<1>3. PICK node \in UpstreamNodes(spec, spec.topology[j], nds) :
        a = formatAddress(ValidateNodeAddressType(spec.svc.ann.nodeAddressType), node, spec.topology[j])
  BY Zenon, <1>2 DEF createNodesStreamUpstream
<1>4. a[1] = IF ValidateNodeAddressType(spec.svc.ann.nodeAddressType) = "internal"
             THEN node.internalIP ELSE node.externalIP
  BY Zenon, <1>3 DEF formatAddress
<1>5. UpstreamNodes(spec, spec.topology[j], nds) = {nds[n] : n \in DOMAIN nds}
  BY Zenon DEF UpstreamNodes
<1> QED
  BY Zenon, <1>3, <1>4, <1>5

\* The configuration of a service that is balanced to pods or to its cluster IP
\* does not depend on the candidate nodes (createPodStreamUpstream,
\* createClusterStreamUpstream).
LEMMA NodesDoNotMatter ==
  ASSUME NEW spec, NEW nds1, NEW nds2, spec.upstreamType \in {"pod", "cluster-ip"}
  PROVE  generateStreamNginxConfig(spec, nds1) = generateStreamNginxConfig(spec, nds2)
<1>1. \A t : UpstreamServers(spec, t, nds1) = UpstreamServers(spec, t, nds2)
  BY Zenon DEF UpstreamServers
<1>2. \A i : StreamUpstream(spec, nds1, i) = StreamUpstream(spec, nds2, i)
  BY <1>1, Zenon DEF StreamUpstream
<1> QED
  BY <1>2, Zenon DEF generateStreamNginxConfig
=============================================================================
