------------------------ MODULE ServicePipelineProofs ------------------------
(***************************************************************************)
(* Proofs about ServicePipeline, for any services, pods, nodes and flags.  *)
(*                                                                         *)
(* The targets of a service are found out first: which ones are in its     *)
(* topology, whatever the order getServiceNetworkTopo sorts them into.     *)
(* What is generated is then about the first target of each upstream name. *)
(***************************************************************************)
EXTENDS ServicePipeline, FiniteSetTheorems, TLAPS

-----------------------------------------------------------------------------
(* Lists *)

\* A set of numbers that is not empty has a least one.
LEMMA LeastNumber ==
  ASSUME NEW S \in SUBSET Nat, S # {}
  PROVE  \E m \in S : \A k \in S : m <= k
<1>1. PICK m \in S : \A k \in S : ~(<<k, m>> \in OpToRel(<, Nat))
  BY Zenon, NatLessThanWellFounded, WFMin
<1>2. \A k \in S : ~(k < m)
  BY Zenon, <1>1 DEF OpToRel
<1> QED BY SMTT(30), <1>2

\* The empty list has no elements.
LEMMA EmptyRange == Range(<<>>) = {}
  BY SMTT(30) DEF Range

\* The list c has the elements of a and b.
HasBoth(c, a, b) == \A x : x \in Range(c) <=> x \in Range(a) \/ x \in Range(b)

LEMMA Appended ==
  ASSUME NEW T, NEW a \in Seq(T), NEW b \in Seq(T)
  PROVE  a \o b \in Seq(T) /\ HasBoth(a \o b, a, b)
<1> DEFINE c == a \o b
<1>1. c \in Seq(T) /\ DOMAIN c = 1..(Len(a) + Len(b)) /\ Len(a) \in Nat /\ Len(b) \in Nat
  BY SMTT(30)
<1>2. \A i \in DOMAIN a : i \in DOMAIN c /\ c[i] = a[i]
  BY SMTT(30)
<1>3. \A i \in DOMAIN b : Len(a) + i \in DOMAIN c /\ c[Len(a) + i] = b[i]
  BY SMTT(30)
<1>4. \A i \in DOMAIN c : \/ i \in DOMAIN a /\ c[i] = a[i]
                          \/ i - Len(a) \in DOMAIN b /\ c[i] = b[i - Len(a)]
  BY SMTT(30)
<1> HIDE DEF c
<1>5. ASSUME NEW x \in Range(c) PROVE x \in Range(a) \/ x \in Range(b)
  BY Zenon, <1>4 DEF Range
<1>6. ASSUME NEW x \in Range(a) PROVE x \in Range(c)
  BY Zenon, <1>2 DEF Range
<1>7. ASSUME NEW x \in Range(b) PROVE x \in Range(c)
  BY Zenon, <1>3 DEF Range
<1> QED BY Zenon, <1>1, <1>5, <1>6, <1>7 DEF c, HasBoth

\* upTo is what Concatenation builds of the first k sequences.
Builds(seqs, k, upTo) ==
  upTo = [n \in 0..k |-> IF n = 0 THEN <<>> ELSE upTo[n - 1] \o seqs[n]]

\* The recursion in Concatenation has a solution.
LEMMA ConcatenationBuilds ==
  ASSUME NEW m \in Nat, NEW seqs
  PROVE  \E upTo : Builds(seqs, m, upTo)
<1> DEFINE Missing == {k \in Nat : ~\E upTo : Builds(seqs, k, upTo)}
<1>1. SUFFICES ASSUME Missing # {} PROVE FALSE
  BY Zenon
<1>2. PICK k \in Missing : \A j \in Missing : k <= j
  BY Zenon, <1>1, LeastNumber
<1>3. CASE k = 0
  <2>1. Builds(seqs, 0, [n \in 0..0 |-> <<>>])
    BY SMTT(30) DEF Builds
  <2> QED BY Zenon, <1>2, <1>3, <2>1
<1>4. CASE k # 0
  <2>1. k - 1 \in Nat /\ k - 1 \notin Missing
    BY SMTT(30), <1>2, <1>4
  <2>2. PICK upTo : Builds(seqs, k - 1, upTo)
    BY Zenon, <2>1
  <2> DEFINE more == [n \in 0..k |-> IF n = k THEN upTo[k - 1] \o seqs[k] ELSE upTo[n]]
  <2>3. \A n \in 0..(k - 1) : upTo[n] = IF n = 0 THEN <<>> ELSE upTo[n - 1] \o seqs[n]
    BY Zenon, <2>2 DEF Builds
  <2>4. \A n \in 0..k : more[n] = IF n = 0 THEN <<>> ELSE more[n - 1] \o seqs[n]
    <3>1. \A n \in 0..k : n # k => n \in 0..(k - 1) /\ more[n] = upTo[n]
      BY SMTT(30)
    <3>2. \A n \in 0..k : n # 0 => n - 1 \in 0..k /\ n - 1 # k
      BY SMTT(30)
    <3>3. k \in 0..k
      BY SMTT(30)
    <3>4. more[k] = upTo[k - 1] \o seqs[k]
      BY Zenon, <3>3
    <3> HIDE DEF more
    <3>5. more[k] = more[k - 1] \o seqs[k]
      BY Zenon, <1>4, <3>1, <3>2, <3>3, <3>4
    <3> QED BY Zenon, <1>4, <2>3, <3>1, <3>2, <3>5
  <2>5. more = [n \in 0..k |-> more[n]]
    BY Zenon
  <2> HIDE DEF more
  <2>6. Builds(seqs, k, more)
    BY Zenon, <2>4, <2>5 DEF Builds
  <2> QED BY Zenon, <1>2, <2>6
<1> QED BY Zenon, <1>3, <1>4

\* The list c has the elements of the first k lists of seqs.
HasAll(c, seqs, k) == \A x : x \in Range(c) <=> \E i \in 1..k : x \in Range(seqs[i])

\* Concatenation makes one list of the elements of all.
LEMMA Concatenates ==
  ASSUME NEW T, NEW m \in Nat, NEW seqs \in [1..m -> Seq(T)]
  PROVE  Concatenation(seqs) \in Seq(T) /\ HasAll(Concatenation(seqs), seqs, m)
<1> DEFINE Fits(upTo) == upTo = [n \in 0..Len(seqs) |-> IF n = 0 THEN <<>> ELSE upTo[n - 1] \o seqs[n]]
           all == CHOOSE upTo : Fits(upTo)
<1>1. seqs \in Seq(Seq(T)) /\ Len(seqs) = m
  BY SMTT(30)
<1>2. Concatenation(seqs) = all[m]
  BY Zenon, <1>1 DEF Concatenation
<1>3. Builds(seqs, m, all)
  <2>1. \E upTo : Fits(upTo)
    BY Zenon, <1>1, ConcatenationBuilds DEF Builds
  <2>2. Fits(all)
    BY Zenon, <2>1
  <2> QED BY Zenon, <1>1, <2>2 DEF Builds
<1> HIDE DEF all
<1>4. all[0] = <<>> /\ \A n \in 1..m : n - 1 \in 0..m /\ all[n] = all[n - 1] \o seqs[n]
  <2>1. 0 \in 0..m /\ \A n \in 1..m : n \in 0..m /\ n - 1 \in 0..m /\ n # 0
    BY SMTT(30)
  <2>2. \A n \in 0..m : all[n] = IF n = 0 THEN <<>> ELSE all[n - 1] \o seqs[n]
    BY Zenon, <1>3 DEF Builds
  <2> QED BY Zenon, <2>1, <2>2
<1> DEFINE Good(n) == all[n] \in Seq(T) /\ HasAll(all[n], seqs, n)
           Bad == {n \in Nat : n <= m /\ ~Good(n)}
<1>5. SUFFICES ASSUME Bad # {} PROVE FALSE
  <2>1. Bad = {} => Good(m)
    BY SMTT(30)
  <2> QED BY Zenon, <1>2, <1>5, <2>1
<1>6. PICK k \in Bad : \A j \in Bad : k <= j
  BY Zenon, <1>5, LeastNumber
<1>7. CASE k = 0
  <2>1. <<>> \in Seq(T) /\ Range(<<>>) = {} /\ 1..0 = {}
    BY SMTT(30) DEF Range
  <2>2. Good(0)
    BY Zenon, <1>4, <2>1 DEF HasAll
  <2> QED BY Zenon, <1>6, <1>7, <2>2
<1>8. CASE k # 0
  <2>1. k \in 1..m /\ k - 1 \in Nat /\ k - 1 <= m /\ ~(k <= k - 1)
    BY SMTT(30), <1>6, <1>8
  <2>2. Good(k - 1)
    BY Zenon, <1>6, <2>1
  <2>3. seqs[k] \in Seq(T) /\ all[k] = all[k - 1] \o seqs[k]
    BY Zenon, <1>4, <2>1
  <2>4. all[k] \in Seq(T) /\ HasBoth(all[k], all[k - 1], seqs[k])
    BY Zenon, <2>2, <2>3, Appended
  <2>5. \A i : i \in 1..k <=> i \in 1..(k - 1) \/ i = k
    BY SMTT(30), <2>1
  <2>6. HasAll(all[k], seqs, k)
    BY Zenon, <2>2, <2>4, <2>5 DEF HasAll, HasBoth
  <2> QED BY Zenon, <1>6, <2>4, <2>6
<1> QED BY Zenon, <1>7, <1>8

\* How many numbers there are up to n, counted from 1 and counted from 0.
LEMMA FirstNumbers ==
  ASSUME NEW n \in Nat
  PROVE  /\ IsFiniteSet(1..n) /\ Cardinality(1..n) = n
         /\ IsFiniteSet(0..(n - 1)) /\ Cardinality(0..(n - 1)) = n
<1>1. 0 \in Int /\ 1 \in Int /\ n \in Int /\ n - 1 \in Int
  BY SMTT(30)
<1>2. /\ IsFiniteSet(1..n) /\ Cardinality(1..n) = IF 1 > n THEN 0 ELSE n - 1 + 1
      /\ IsFiniteSet(0..(n - 1)) /\ Cardinality(0..(n - 1)) = IF 0 > n - 1 THEN 0 ELSE (n - 1) - 0 + 1
  BY Zenon, <1>1, FS_Interval
<1> QED BY SMTT(30), <1>2

-----------------------------------------------------------------------------
(* The order of the ports *)

\* lbex and NGINX mean the same by a port.
LEMMA SameRange ==
  ASSUME NEW port
  PROVE  InPortRange(port) <=> ValidPort(port)
  BY SMT DEF InPortRange, ValidPort

\* A rule name has a place among the rule names of its service
\* (GetServiceNameForLBRule).
LEMMA RuleOrderNumber ==
  ASSUME NEW port \in Int, InPortRange(port)
  PROVE  LBRuleOrder(port) \in Int
<1>1. port < 100000
  BY SMTT(30) DEF InPortRange
<1>2. \E d \in 1..5 : port < Powers[d] /\ (d = 1 \/ port >= Powers[d - 1])
  BY SMTT(30), <1>1 DEF Powers
<1>3. Digits(port) \in 1..5
  BY Zenon, <1>2 DEF Digits
<1>4. Powers[6 - Digits(port)] \in Int
  BY SMTT(30), <1>3 DEF Powers
<1> QED BY SMTT(30), <1>1, <1>3, <1>4 DEF LBRuleOrder

\* Of any two ports one comes before the other.
LEMMA PortsCompare ==
  ASSUME NEW ports, NEW D \in SUBSET Int, \A i \in D : LBRuleOrder(ports[i].port) \in Int
  PROVE  /\ \A i \in D : ~ComesBefore(ports, i, i)
         /\ \A i, j \in D : i # j => ComesBefore(ports, i, j) \/ ComesBefore(ports, j, i)
         /\ \A i, j, k \in D : ComesBefore(ports, i, j) /\ ComesBefore(ports, j, k) => ComesBefore(ports, i, k)
<1> DEFINE Rule(i) == LBRuleOrder(ports[i].port)
<1>1. \A i, j : ComesBefore(ports, i, j) <=> Rule(i) < Rule(j) \/ (Rule(i) = Rule(j) /\ i < j)
  BY Zenon DEF ComesBefore
<1>2. \A i \in D : Rule(i) \in Int /\ i \in Int
  BY Zenon
<1> HIDE DEF Rule
<1> QED BY SMTT(30), <1>1, <1>2

\* The order of the ports has each of them at one place (getServiceNetworkTopo
\* sorts, and loses no port).
LEMMA PortsSorted ==
  ASSUME NEW ports, ports \in Seq(Range(ports)),
         \A i \in DOMAIN ports : ports[i].port \in Int /\ InPortRange(ports[i].port)
  PROVE  /\ \A n \in DOMAIN ports : PortOrder(ports)[n] \in DOMAIN ports
         /\ \A i \in DOMAIN ports : \E n \in DOMAIN ports : PortOrder(ports)[n] = i
<1> DEFINE D == DOMAIN ports
           N == Len(ports)
           Earlier(i) == {j \in D : ComesBefore(ports, j, i)}
           rank == [i \in D |-> Cardinality(Earlier(i))]
<1>1. N \in Nat /\ D = 1..N /\ D \in SUBSET Int
  BY SMTT(30)
<1>2. IsFiniteSet(D) /\ Cardinality(D) = N
  BY Zenon, <1>1, FirstNumbers
<1>3. IsFiniteSet(0..(N - 1)) /\ Cardinality(0..(N - 1)) = N
  BY Zenon, <1>1, FirstNumbers
<1>4. /\ \A i \in D : ~ComesBefore(ports, i, i)
      /\ \A i, j \in D : i # j => ComesBefore(ports, i, j) \/ ComesBefore(ports, j, i)
      /\ \A i, j, k \in D : ComesBefore(ports, i, j) /\ ComesBefore(ports, j, k) => ComesBefore(ports, i, k)
  BY Zenon, <1>1, PortsCompare, RuleOrderNumber
<1>5. \A i \in D : IsFiniteSet(Earlier(i)) /\ rank[i] = Cardinality(Earlier(i))
  BY Zenon, <1>2, FS_Subset
<1>6. \A i \in D : rank[i] \in Nat
  BY Zenon, <1>5, FS_CardinalityType
<1>7. \A i \in D : rank[i] \in 0..(N - 1)
  <2> SUFFICES ASSUME NEW i \in D PROVE rank[i] \in 0..(N - 1)
    BY Zenon
  <2>1. Earlier(i) \in SUBSET D /\ i \notin Earlier(i)
    BY Zenon, <1>4
  <2>2. Cardinality(Earlier(i)) <= Cardinality(D) /\ Cardinality(D) # Cardinality(Earlier(i))
    BY Zenon, <1>2, <2>1, FS_Subset
  <2> HIDE DEF Earlier, D, rank
  <2> QED BY SMTT(30), <1>1, <1>2, <1>5, <1>6, <2>2
<1>8. \A i, k \in D : ComesBefore(ports, i, k) => rank[i] # rank[k]
  <2> SUFFICES ASSUME NEW i \in D, NEW k \in D, ComesBefore(ports, i, k) PROVE rank[i] # rank[k]
    BY Zenon
  <2>1. Earlier(i) \in SUBSET Earlier(k)
    BY Zenon, <1>4
  <2>2. i \in Earlier(k) /\ i \notin Earlier(i)
    BY Zenon, <1>4
  <2> QED BY Zenon, <1>5, <2>1, <2>2, FS_Subset
<1>9. \A i, k \in D : rank[i] = rank[k] => i = k
  BY Zenon, <1>4, <1>8
<1>10. \A k \in 0..(N - 1) : \E i \in D : rank[i] = k
  <2>1. rank \in [D -> 0..(N - 1)]
    BY Zenon, <1>7
  <2>2. rank \in Injection(D, 0..(N - 1))
    <3>1. DOMAIN rank = D
      BY Zenon
    <3> HIDE DEF rank, D
    <3> QED BY Zenon, <1>9, <2>1, <3>1 DEF Injection, IsInjective
  <2> HIDE DEF rank, D
  <2>3. rank \in Surjection(D, 0..(N - 1))
    BY Zenon, <1>2, <1>3, <2>2, FS_Injection
  <2> QED BY Zenon, <2>3 DEF Surjection
<1>11. \A n \in D : n - 1 \in 0..(N - 1)
  BY SMTT(30), <1>1
<1>12. \A n \in D : PortOrder(ports)[n] \in D /\ rank[PortOrder(ports)[n]] = n - 1
  <2> SUFFICES ASSUME NEW n \in D PROVE PortOrder(ports)[n] \in D /\ rank[PortOrder(ports)[n]] = n - 1
    BY Zenon
  <2>1. PortOrder(ports)[n] = CHOOSE i \in D : Cardinality(Earlier(i)) = n - 1
    BY Zenon DEF PortOrder
  <2>2. \E i \in D : Cardinality(Earlier(i)) = n - 1
    BY Zenon, <1>5, <1>10, <1>11
  <2> HIDE DEF rank, D, Earlier
  <2> QED BY Zenon, <1>5, <2>1, <2>2
<1>13. \A i \in D : rank[i] + 1 \in D /\ (rank[i] + 1) - 1 = rank[i]
  <2> HIDE DEF rank, Earlier
  <2> QED BY SMTT(30), <1>1, <1>7
<1> HIDE DEF rank, Earlier
<1>14. ASSUME NEW i \in D PROVE PortOrder(ports)[rank[i] + 1] = i
  <2>1. /\ PortOrder(ports)[rank[i] + 1] \in D
        /\ rank[PortOrder(ports)[rank[i] + 1]] = (rank[i] + 1) - 1
    BY Zenon, <1>12, <1>13
  <2> QED BY Zenon, <1>9, <1>13, <2>1
<1> QED BY Zenon, <1>12, <1>13, <1>14

-----------------------------------------------------------------------------
(* The topology of a service *)

\* The targets a service may have, and those of them its i-th port has.
TargetSet(s, ps) ==
  {Target(s.ports[i], EndpointPort(s.ports[q]), p) : i \in DOMAIN s.ports, q \in DOMAIN s.ports, p \in ps}

TargetOfPort(t, s, ps, i) ==
  \E q \in DOMAIN s.ports : \E p \in ps :
    /\ TargetsPort(s.ports[i], EndpointPort(s.ports[q]))
    /\ t = Target(s.ports[i], EndpointPort(s.ports[q]), p)

\* The addresses of the Endpoints object are those of the pods.
LEMMA PodsListed ==
  ASSUME NEW ps, ArePods(ps)
  PROVE  Listed(ps) \in Seq(ps) /\ Range(Listed(ps)) = ps
<1> DEFINE n == Cardinality(ps)
<1>1. n \in Nat /\ ExistsBijection(1..n, ps) /\ IsFiniteSet(ps)
  BY Zenon, FS_CardinalityType DEF ArePods
<1>2. \E l \in [1..n -> ps] : IsInjective(l)
  BY Zenon, <1>1 DEF ExistsBijection, Bijection, Injection
<1>3. Listed(ps) \in [1..n -> ps] /\ IsInjective(Listed(ps))
  BY Zenon, <1>2 DEF Listed
<1>4. Listed(ps) \in Injection(1..n, ps)
  BY Zenon, <1>3 DEF Injection
<1>5. Cardinality(1..n) = n
  BY Zenon, <1>1, FirstNumbers
<1>6. Listed(ps) \in Surjection(1..n, ps)
  BY Zenon, <1>1, <1>4, <1>5, FS_Injection
<1>7. Range(Listed(ps)) = ps
  BY Zenon, <1>3, <1>6 DEF Surjection, Range
<1> HIDE DEF n
<1>8. Listed(ps) \in Seq(ps)
  BY SMTT(30), <1>1, <1>3
<1> QED BY Zenon, <1>7, <1>8

\* The list has one target for each pod, if the endpoint port is for the service port.
ListsEach(list, T, sp, ep, ps) ==
  /\ list \in Seq(T)
  /\ \A t : t \in Range(list) <=> TargetsPort(sp, ep) /\ \E p \in ps : t = Target(sp, ep, p)

\* An endpoint port gives a service port one target for each pod, or none.
LEMMA TargetsOfEndpointPort ==
  ASSUME NEW T, NEW sp, NEW ep, NEW ps, NEW addresses \in Seq(ps), Range(addresses) = ps,
         \A p \in ps : TargetsPort(sp, ep) => Target(sp, ep, p) \in T
  PROVE  ListsEach(PortTargets(sp, ep, addresses), T, sp, ep, ps)
<1>1. CASE TargetsPort(sp, ep)
  <2> DEFINE list == [a \in DOMAIN addresses |-> Target(sp, ep, addresses[a])]
  <2>1. PortTargets(sp, ep, addresses) = list
    BY Zenon, <1>1 DEF PortTargets
  <2>2. \A a \in DOMAIN addresses : addresses[a] \in ps
    BY Zenon DEF Range
  <2>3. \A a \in DOMAIN addresses : list[a] \in T
    BY Zenon, <1>1, <2>2
  <2>4. DOMAIN addresses = 1..Len(addresses) /\ Len(addresses) \in Nat
    BY SMTT(30)
  <2>5. list \in [1..Len(addresses) -> T]
    BY Zenon, <2>3, <2>4
  <2>6. \A t : t \in Range(list) <=> \E p \in ps : t = Target(sp, ep, p)
    BY Zenon DEF Range
  <2> HIDE DEF list
  <2>7. list \in Seq(T)
    BY SMTT(30), <2>4, <2>5
  <2> QED BY Zenon, <1>1, <2>1, <2>6, <2>7 DEF ListsEach
<1>2. CASE ~TargetsPort(sp, ep)
  <2>1. <<>> \in Seq(T) /\ Range(<<>>) = {}
    BY SMTT(30) DEF Range
  <2> QED BY Zenon, <1>2, <2>1 DEF PortTargets, ListsEach
<1> QED BY Zenon, <1>1, <1>2

\* The list has the targets of the i-th port.
ListsTargets(list, s, ps, i) ==
  list \in Seq(TargetSet(s, ps)) /\ \A t : t \in Range(list) <=> TargetOfPort(t, s, ps, i)

\* The targets of a service port in the one subset of the Endpoints object.
LEMMA TargetsOfSubset ==
  ASSUME NEW s, IsService(s), NEW ps, ArePods(ps), NEW i \in DOMAIN s.ports, NEW subset,
         subset.ports = [q \in DOMAIN s.ports |-> EndpointPort(s.ports[q])],
         subset.addresses = Listed(ps)
  PROVE  ListsTargets(SubsetTargets(s.ports[i], subset), s, ps, i)
<1> DEFINE T == TargetSet(s, ps)
           m == Len(s.ports)
           Part(q) == PortTargets(s.ports[i], EndpointPort(s.ports[q]), Listed(ps))
           parts == [q \in DOMAIN subset.ports |->
                       PortTargets(s.ports[i], subset.ports[q], subset.addresses)]
<1>1. m \in Nat /\ DOMAIN s.ports = 1..m
  <2>1. s.ports \in Seq(Range(s.ports))
    BY Zenon DEF IsService
  <2> QED BY SMTT(30), <2>1
<1>2. SubsetTargets(s.ports[i], subset) = Concatenation(parts)
  BY Zenon DEF SubsetTargets
<1>3. DOMAIN parts = DOMAIN s.ports /\ \A q \in DOMAIN s.ports : parts[q] = Part(q)
  BY Zenon
<1>4. ASSUME NEW q \in DOMAIN s.ports
      PROVE  ListsEach(Part(q), T, s.ports[i], EndpointPort(s.ports[q]), ps)
  <2>1. \A p \in ps : Target(s.ports[i], EndpointPort(s.ports[q]), p) \in T
    BY SMTT(30), <1>4 DEF TargetSet
  <2> HIDE DEF T
  <2> QED BY Zenon, <2>1, PodsListed, TargetsOfEndpointPort
<1>5. parts \in [1..m -> Seq(T)]
  <2> HIDE DEF Part, T, m
  <2> QED BY Zenon, <1>1, <1>3, <1>4 DEF ListsEach
<1> HIDE DEF parts, Part, T, m
<1>6. Concatenation(parts) \in Seq(T) /\ HasAll(Concatenation(parts), parts, m)
  BY Zenon, <1>1, <1>5, Concatenates
<1>7. \A t : t \in Range(Concatenation(parts)) <=> \E q \in DOMAIN s.ports : t \in Range(Part(q))
  BY Zenon, <1>1, <1>3, <1>6 DEF HasAll
<1>8. \A t : t \in Range(Concatenation(parts)) <=> TargetOfPort(t, s, ps, i)
  <2>1. ASSUME NEW t, NEW q \in DOMAIN s.ports
        PROVE  t \in Range(Part(q)) <=>
                 /\ TargetsPort(s.ports[i], EndpointPort(s.ports[q]))
                 /\ \E p \in ps : t = Target(s.ports[i], EndpointPort(s.ports[q]), p)
    BY Zenon, <1>4 DEF ListsEach
  <2>2. ASSUME NEW t PROVE TargetOfPort(t, s, ps, i) <=> \E q \in DOMAIN s.ports : t \in Range(Part(q))
    BY ZenonT(60), <2>1 DEF TargetOfPort
  <2> QED BY Zenon, <1>7, <2>2
<1> QED BY Zenon, <1>2, <1>6, <1>8 DEF ListsTargets, T

\* getEndpoints finds the targets of a service port in the Endpoints object.
LEMMA TargetsOfPort ==
  ASSUME NEW s, IsService(s), NEW ps, ArePods(ps), NEW i \in DOMAIN s.ports
  PROVE  ListsTargets(getEndpoints(EndpointsOf(s, ps), s.ports[i]), s, ps, i)
<1> DEFINE T == TargetSet(s, ps)
           endpoints == EndpointsOf(s, ps)
           parts == [k \in DOMAIN endpoints |-> SubsetTargets(s.ports[i], endpoints[k])]
<1>1. getEndpoints(endpoints, s.ports[i]) = Concatenation(parts)
  BY Zenon DEF getEndpoints
<1>2. CASE ps = {}
  <2>1. endpoints = <<>>
    BY Zenon, <1>2 DEF EndpointsOf
  <2>2. DOMAIN parts = 1..0 /\ 1..0 = {}
    BY SMTT(30), <2>1
  <2>3. parts \in [1..0 -> Seq(T)]
    BY Zenon, <2>2
  <2> HIDE DEF parts, T
  <2>4. Concatenation(parts) \in Seq(T) /\ HasAll(Concatenation(parts), parts, 0)
    <3>1. 0 \in Nat
      BY SMTT(30)
    <3> QED BY Zenon, <2>3, <3>1, Concatenates
  <2> QED BY Zenon, <1>1, <1>2, <2>2, <2>4 DEF HasAll, ListsTargets, TargetOfPort, T
<1>3. CASE ps # {}
  <2> DEFINE subset == [addresses |-> Listed(ps),
                        ports |-> [q \in DOMAIN s.ports |-> EndpointPort(s.ports[q])]]
  <2>1. endpoints = <<subset>>
    BY Zenon, <1>3 DEF EndpointsOf
  <2>2. ListsTargets(SubsetTargets(s.ports[i], subset), s, ps, i)
    BY Zenon, TargetsOfSubset
  <2> HIDE DEF subset
  <2>3. DOMAIN endpoints = 1..1 /\ endpoints[1] = subset
    BY SMTT(30), <2>1
  <2>4. 1 \in 1..1 /\ \A k \in 1..1 : k = 1
    BY SMTT(30)
  <2>5. DOMAIN parts = 1..1 /\ \A k \in 1..1 : parts[k] = SubsetTargets(s.ports[i], subset)
    BY Zenon, <2>3, <2>4
  <2>6. parts \in [1..1 -> Seq(T)]
    BY Zenon, <2>2, <2>5 DEF ListsTargets
  <2> HIDE DEF parts, T
  <2>7. Concatenation(parts) \in Seq(T) /\ HasAll(Concatenation(parts), parts, 1)
    <3>1. 1 \in Nat
      BY SMTT(30)
    <3> QED BY Zenon, <2>6, <3>1, Concatenates
  <2> QED BY Zenon, <1>1, <2>2, <2>4, <2>5, <2>7 DEF HasAll, ListsTargets, T
<1> QED BY Zenon, <1>2, <1>3

\* What ReadStores computes.
SyncTopo(c, s, ps) ==
  getServiceNetworkTopo(c, [k \in {KeyOf(s)} |-> s], [k \in {KeyOf(s)} |-> EndpointsOf(s, ps)], KeyOf(s))

\* The list has the targets of all ports.
ListsAllTargets(list, s, ps) ==
  /\ list \in Seq(TargetSet(s, ps))
  /\ \A t : t \in Range(list) <=> \E i \in DOMAIN s.ports : TargetOfPort(t, s, ps, i)

\* A service that is not for lbex has an empty topology.
LEMMA NotManagedIsEmpty ==
  ASSUME NEW c, NEW s, NEW ps, ~Managed(c, s)
  PROVE  SyncTopo(c, s, ps) = <<>>
<1> DEFINE store == [k \in {KeyOf(s)} |-> s]
<1>1. store[KeyOf(s)] = s
  BY Zenon
<1>2. ~Balanced(c, store, KeyOf(s))
  <2> HIDE DEF store
  <2> QED BY Zenon, <1>1 DEF Balanced
<1> HIDE DEF store
<1> QED BY Zenon, <1>2 DEF SyncTopo, getServiceNetworkTopo, store

\* The topology of a service that is for lbex has the targets of its ports: the
\* sort by rule name neither loses one nor adds one (getServiceNetworkTopo).
LEMMA TopologyHasTargets ==
  ASSUME NEW c, NEW s, IsService(s), NEW ps, ArePods(ps), Managed(c, s)
  PROVE  ListsAllTargets(SyncTopo(c, s, ps), s, ps)
<1> DEFINE store == [k \in {KeyOf(s)} |-> s]
           epStore == [k \in {KeyOf(s)} |-> EndpointsOf(s, ps)]
           T == TargetSet(s, ps)
           m == Len(s.ports)
           each == [i \in DOMAIN s.ports |-> getEndpoints(EndpointsOf(s, ps), s.ports[i])]
           order == PortOrder(s.ports)
           parts == [n \in DOMAIN s.ports |-> each[order[n]]]
<1>1. store[KeyOf(s)] = s /\ KeyOf(s) \in DOMAIN store
  BY Zenon
<1>2. epStore[KeyOf(s)] = EndpointsOf(s, ps) /\ KeyOf(s) \in DOMAIN epStore
  BY Zenon
<1>3. SyncTopo(c, s, ps) = SortedTopo(s.ports, each)
  <2>1. Balanced(c, store, KeyOf(s)) /\ store[KeyOf(s)].ports = s.ports
    <3> HIDE DEF store
    <3> QED BY Zenon, <1>1 DEF Balanced
  <2>2. getServiceEndpoints(epStore, KeyOf(s)) = EndpointsOf(s, ps)
    <3> HIDE DEF epStore
    <3> QED BY Zenon, <1>2 DEF getServiceEndpoints
  <2>3. SyncTopo(c, s, ps) = getServiceNetworkTopo(c, store, epStore, KeyOf(s))
    BY Zenon DEF SyncTopo
  <2> HIDE DEF store, epStore
  <2> QED BY Zenon, <2>1, <2>2, <2>3 DEF getServiceNetworkTopo
<1>4. SortedTopo(s.ports, each) = Concatenation(parts)
  BY Zenon DEF SortedTopo
<1>5. s.ports \in Seq(Range(s.ports)) /\ \A i \in DOMAIN s.ports : s.ports[i].port \in Int /\ InPortRange(s.ports[i].port)
  BY Zenon, SameRange DEF IsService, IsPort
<1>6. m \in Nat /\ DOMAIN s.ports = 1..m
  BY SMTT(30), <1>5
<1>7. /\ \A n \in DOMAIN s.ports : order[n] \in DOMAIN s.ports
      /\ \A i \in DOMAIN s.ports : \E n \in DOMAIN s.ports : order[n] = i
  BY Zenon, <1>5, PortsSorted
<1>8. \A i \in DOMAIN s.ports : ListsTargets(each[i], s, ps, i)
  BY Zenon, TargetsOfPort
<1> HIDE DEF each, order, m
<1>9. \A n \in DOMAIN s.ports : parts[n] = each[order[n]]
  BY Zenon
<1>10. parts \in [1..m -> Seq(T)]
  BY Zenon, <1>6, <1>7, <1>8 DEF ListsTargets
<1> HIDE DEF parts, T
<1>11. Concatenation(parts) \in Seq(T) /\ HasAll(Concatenation(parts), parts, m)
  BY Zenon, <1>6, <1>10, Concatenates
<1>12. ASSUME NEW t PROVE t \in Range(Concatenation(parts)) <=> \E i \in DOMAIN s.ports : t \in Range(each[i])
  <2>1. t \in Range(Concatenation(parts)) <=> \E n \in DOMAIN s.ports : t \in Range(parts[n])
    BY Zenon, <1>6, <1>11 DEF HasAll
  <2>2. t \in Range(Concatenation(parts)) <=> \E n \in DOMAIN s.ports : t \in Range(each[order[n]])
    BY Zenon, <1>9, <2>1
  <2> QED BY Zenon, <1>7, <2>2
<1>13. ASSUME NEW t, NEW i \in DOMAIN s.ports PROVE t \in Range(each[i]) <=> TargetOfPort(t, s, ps, i)
  BY Zenon, <1>8 DEF ListsTargets
<1> QED BY Zenon, <1>3, <1>4, <1>11, <1>12, <1>13 DEF ListsAllTargets, T

-----------------------------------------------------------------------------
(* The invariant *)

\* How far the sync has got says which results there are.
Inv ==
  /\ cfg \in Configs /\ svc \in Services /\ pods \in PodSets
  /\ step \in {"start", "not managed", "generate", "written"}
  /\ step # "start" => topo = SyncTopo(cfg, svc, pods)
  /\ step = "not managed" => topo = <<>>
  /\ step \in {"generate", "written"} => topo # <<>>
  /\ step = "written" => conf = generateStreamNginxConfig(SpecOf(svc, topo), nodes)

\* Every step of the sync keeps the invariant.
LEMMA InvHolds == Spec => []Inv
<1>1. Init => Inv
  BY Zenon DEF Init, Inv
<1>2. Inv /\ [Next]_vars => Inv'
  <2> SUFFICES ASSUME Inv, [Next]_vars PROVE Inv'
    BY Zenon
  <2>1. CASE ReadStores
    <3>1. topo' = SyncTopo(cfg, svc, pods)
      BY Zenon, <2>1 DEF ReadStores, SyncTopo
    <3>2. UNCHANGED <<cfg, svc, pods, nodes>>
      BY Zenon, <2>1 DEF ReadStores
    <3>3. SyncTopo(cfg, svc, pods)' = SyncTopo(cfg, svc, pods)
      BY Zenon, <3>2
    <3>4. step' = IF topo' = <<>> THEN "not managed" ELSE "generate"
      BY Zenon, <2>1 DEF ReadStores
    <3> QED BY Zenon, <3>1, <3>2, <3>3, <3>4 DEF Inv
  <2>2. CASE Generate
    <3>1. UNCHANGED <<cfg, svc, pods, nodes, topo>> /\ step = "generate" /\ step' = "written"
      BY Zenon, <2>2 DEF Generate
    <3>2. conf' = generateStreamNginxConfig(SpecOf(svc, topo), nodes)
      BY Zenon, <2>2 DEF Generate
    <3> QED BY Zenon, <3>1, <3>2 DEF Inv
  <2>3. CASE UNCHANGED vars
    <3>1. UNCHANGED <<cfg, svc, pods, nodes, step, topo, conf>>
      BY Zenon, <2>3 DEF vars
    <3> QED BY Zenon, <3>1 DEF Inv
  <2> QED BY Zenon, <2>1, <2>2, <2>3 DEF Next
<1> QED BY <1>1, <1>2, PTL DEF Spec

-----------------------------------------------------------------------------
(* Affinity *)

\* Of two instances with one pool, one strict and one anti, exactly one serves
\* any service that passes the checks of its object (checkAffinity).
THEOREM AffinityPartitionHolds == Spec => []AffinityPartition
<1>1. Inv => AffinityPartition
  <2> SUFFICES ASSUME Inv, baseCheck(cfg, svc), cfg.serviceName = <<>>
               PROVE  Managed([cfg EXCEPT !.strictAffinity = TRUE], svc)
                        # Managed([[cfg EXCEPT !.strictAffinity = FALSE] EXCEPT !.antiAffinity = TRUE], svc)
    BY Zenon DEF AffinityPartition
  <2> DEFINE strict == [cfg EXCEPT !.strictAffinity = TRUE]
             anti == [[cfg EXCEPT !.strictAffinity = FALSE] EXCEPT !.antiAffinity = TRUE]
  <2>1. cfg \in [serviceName : Seq(STRING), servicePool : STRING,
                 strictAffinity : BOOLEAN, antiAffinity : BOOLEAN, requirePort : BOOLEAN]
    BY Zenon, InputsAssumption DEF Inv, IsConfig
  <2>2. /\ strict.serviceName = cfg.serviceName /\ strict.servicePool = cfg.servicePool
        /\ strict.requirePort = cfg.requirePort /\ strict.strictAffinity = TRUE
    BY SMTT(30), <2>1
  <2>3. /\ anti.serviceName = cfg.serviceName /\ anti.servicePool = cfg.servicePool
        /\ anti.requirePort = cfg.requirePort
        /\ anti.strictAffinity = FALSE /\ anti.antiAffinity = TRUE
    BY SMTT(30), <2>1
  <2> HIDE DEF strict, anti
  <2>4. Managed(strict, svc) <=> svc.ann.pool = cfg.servicePool
    BY Zenon, <2>2 DEF Managed, baseCheck, checkAffinity
  <2>5. Managed(anti, svc) <=> svc.ann.pool # cfg.servicePool
    BY Zenon, <2>3 DEF Managed, baseCheck, checkAffinity
  <2>6. Managed(strict, svc) # Managed(anti, svc)
    BY ZenonT(60), <2>4, <2>5
  <2> QED BY Zenon, <2>6 DEF strict, anti
<1> QED BY <1>1, InvHolds, PTL

-----------------------------------------------------------------------------
(* The targets of a service with distinct ports *)

\* What a target is made of: the port of the service it is for, the service port
\* whose endpoint port it is, and the pod.
MadeOf(t, sp, x, p) ==
  /\ t.servicePort = sp.port /\ t.nodePort = sp.nodePort
  /\ t.node = p.node /\ t.podIP = p.ip
  /\ t.portName = x.name /\ t.protocol = x.protocol
  /\ t.podPort = EndpointPort(x).port
  /\ x.targetPort.type = "Int" => t.podPort = x.targetPort.int

LEMMA TargetFields ==
  ASSUME NEW sp, NEW x, NEW p
  PROVE  MadeOf(Target(sp, EndpointPort(x), p), sp, x, p)
  BY SMTT(30) DEF Target, EndpointPort, MadeOf

\* An endpoint port with a number serves the port it was made of and no other.
LEMMA OwnEndpointPort ==
  ASSUME Inv, PortsDistinct, NEW i \in DOMAIN svc.ports, NEW q \in DOMAIN svc.ports
  PROVE  TargetsPort(svc.ports[i], EndpointPort(svc.ports[q])) <=> q = i
<1>1. IsService(svc)
  BY Zenon, InputsAssumption DEF Inv
<1>2. svc.ports[i].targetPort.type = "Int" /\ svc.ports[q].targetPort.type = "Int"
  BY Zenon DEF PortsDistinct
<1>3. EndpointPort(svc.ports[q]).port = svc.ports[q].targetPort.int
  BY SMTT(30), <1>2 DEF EndpointPort
<1>4. svc.ports[q].targetPort.int # 0
  <2>1. IsPort(EndpointPort(svc.ports[q]).port)
    BY Zenon, <1>1 DEF IsService
  <2> QED BY SMTT(30), <1>3, <2>1 DEF IsPort, ValidPort
<1>5. svc.ports[q].targetPort.int = svc.ports[i].targetPort.int <=> q = i
  BY Zenon DEF PortsDistinct
<1> QED BY Zenon, <1>2, <1>3, <1>4, <1>5 DEF TargetsPort

\* The target that a pod is for the i-th port.
PodTarget(i, p) == Target(svc.ports[i], EndpointPort(svc.ports[i]), p)

\* The targets of a port are the pods at the number of that port.
LEMMA PodTargets ==
  ASSUME Inv, PortsDistinct, NEW i \in DOMAIN svc.ports, NEW t
  PROVE  TargetOfPort(t, svc, pods, i) <=> \E p \in pods : t = PodTarget(i, p)
<1>1. ASSUME TargetOfPort(t, svc, pods, i) PROVE \E p \in pods : t = PodTarget(i, p)
  <2>1. PICK q \in DOMAIN svc.ports : \E p \in pods :
          /\ TargetsPort(svc.ports[i], EndpointPort(svc.ports[q]))
          /\ t = Target(svc.ports[i], EndpointPort(svc.ports[q]), p)
    BY Zenon, <1>1 DEF TargetOfPort
  <2>2. q = i
    BY Zenon, <2>1, OwnEndpointPort
  <2> QED BY Zenon, <2>1, <2>2 DEF PodTarget
<1>2. ASSUME NEW p \in pods, t = PodTarget(i, p) PROVE TargetOfPort(t, svc, pods, i)
  <2>1. TargetsPort(svc.ports[i], EndpointPort(svc.ports[i]))
    BY ZenonT(60), OwnEndpointPort
  <2> QED BY Zenon, <1>2, <2>1 DEF TargetOfPort, PodTarget
<1> QED BY Zenon, <1>1, <1>2

\* A service that is for lbex and has pods gets a topology, when its ports can be
\* told apart.
THEOREM ManagedGetsTopologyHolds == Spec => []ManagedGetsTopology
<1>1. Inv => ManagedGetsTopology
  <2> SUFFICES ASSUME Inv, step = "not managed", PortsDistinct, Managed(cfg, svc), pods # {}
               PROVE  FALSE
    BY Zenon DEF ManagedGetsTopology
  <2>1. IsService(svc) /\ ArePods(pods) /\ topo = SyncTopo(cfg, svc, pods) /\ topo = <<>>
    BY Zenon, InputsAssumption DEF Inv
  <2>2. ListsAllTargets(topo, svc, pods)
    BY Zenon, <2>1, TopologyHasTargets
  <2>3. PICK i \in DOMAIN svc.ports : PortAnnotation(svc, i).ok
    BY Zenon DEF Managed, baseCheck
  <2>4. PICK p \in pods : TRUE
    BY Zenon
  <2>5. TargetOfPort(PodTarget(i, p), svc, pods, i)
    BY Zenon, PodTargets
  <2>6. PodTarget(i, p) \in Range(topo)
    BY ZenonT(60), <2>2, <2>5 DEF ListsAllTargets
  <2> QED BY Zenon, <2>1, <2>6, EmptyRange
<1> QED BY <1>1, InvHolds, PTL

-----------------------------------------------------------------------------
(* The configuration *)

\* What is known once the configuration is written: the spec it was made of.
Written(spec) ==
  /\ spec = SpecOf(svc, topo)
  /\ IsService(svc) /\ ArePods(pods) /\ Managed(cfg, svc)
  /\ topo # <<>> /\ ListsAllTargets(topo, svc, pods)
  /\ conf = generateStreamNginxConfig(spec, nodes)

LEMMA WhenWritten ==
  ASSUME Inv, step = "written"
  PROVE  Written(SpecOf(svc, topo))
<1>1. IsService(svc) /\ ArePods(pods)
  BY Zenon, InputsAssumption DEF Inv
<1>2. topo = SyncTopo(cfg, svc, pods) /\ topo # <<>>
  BY Zenon DEF Inv
<1>3. conf = generateStreamNginxConfig(SpecOf(svc, topo), nodes)
  BY Zenon DEF Inv
<1>4. Managed(cfg, svc)
  BY Zenon, <1>2, NotManagedIsEmpty
<1>5. ListsAllTargets(topo, svc, pods)
  BY Zenon, <1>1, <1>2, <1>4, TopologyHasTargets
<1> QED BY ZenonT(60), <1>1, <1>2, <1>3, <1>4, <1>5 DEF Written

\* The fields of the spec.
LEMMA SpecFields ==
  ASSUME NEW spec, Written(spec)
  PROVE  /\ spec.svc = svc /\ spec.topology = topo /\ spec.clusterIP = svc.clusterIP
         /\ spec.algorithm = ValidateAlgorithm(svc.ann.algorithm)
         /\ spec.upstreamType = ValidateUpstreamType(svc.ann.upstreamType)
<1>1. spec = SpecOf(svc, topo)
  BY Zenon DEF Written
<1> QED BY Zenon, <1>1 DEF SpecOf

\* The names of the upstreams of the targets.
LEMMA NameOfTarget ==
  ASSUME NEW spec, Written(spec)
  PROVE  /\ DOMAIN UpstreamNames(spec) = DOMAIN topo
         /\ \A n \in DOMAIN topo : UpstreamNames(spec)[n] = getNameForStreamUpstream(svc, topo[n].portName)
<1>1. spec.svc = svc /\ spec.topology = topo
  BY Zenon, SpecFields
<1> QED BY Zenon, <1>1 DEF UpstreamNames

\* A target of the topology is a pod for one of the ports.
LEMMA TopologyTarget ==
  ASSUME NEW spec, Written(spec), NEW n \in DOMAIN topo
  PROVE  \E i \in DOMAIN svc.ports : TargetOfPort(topo[n], svc, pods, i)
<1>1. topo[n] \in Range(topo)
  BY Zenon DEF Range
<1> QED BY Zenon, <1>1 DEF Written, ListsAllTargets

\* Every upstream name has a first target, and only one: the map that
\* generateStreamNginxConfig fills has each name once.
LEMMA FirstOfName ==
  ASSUME NEW spec, Written(spec)
  PROVE  /\ FirstTargets(spec) \subseteq DOMAIN topo
         /\ \A n \in DOMAIN topo : \E f \in FirstTargets(spec) : UpstreamNames(spec)[f] = UpstreamNames(spec)[n]
         /\ \A f, g \in FirstTargets(spec) : UpstreamNames(spec)[f] = UpstreamNames(spec)[g] => f = g
<1> DEFINE name == UpstreamNames(spec)
<1>1. spec.topology = topo
  BY Zenon, SpecFields
<1>2. FirstTargets(spec) = {i \in DOMAIN topo : \A j \in 1..(i - 1) : name[j] # name[i]}
  BY Zenon, <1>1 DEF FirstTargets
<1>3. topo \in Seq(TargetSet(svc, pods))
  BY Zenon DEF Written, ListsAllTargets
<1>4. Len(topo) \in Nat /\ DOMAIN topo = 1..Len(topo)
  BY SMTT(30), <1>3
<1> HIDE DEF name
<1>5. ASSUME NEW n \in DOMAIN topo PROVE \E f \in FirstTargets(spec) : name[f] = name[n]
  <2> DEFINE S == {k \in DOMAIN topo : name[k] = name[n]}
  <2>1. S \in SUBSET Nat
    BY SMTT(30), <1>4
  <2>2. PICK f \in S : \A k \in S : f <= k
    BY Zenon, <1>5, <2>1, LeastNumber
  <2>3. f \in DOMAIN topo /\ name[f] = name[n]
    BY Zenon, <2>2
  <2>4. \A j \in 1..(f - 1) : j \in DOMAIN topo /\ ~(f <= j)
    BY SMTT(30), <1>4, <2>3
  <2>5. \A j \in 1..(f - 1) : name[j] # name[f]
    BY Zenon, <2>2, <2>3, <2>4
  <2> QED BY Zenon, <1>2, <2>3, <2>5
<1>6. ASSUME NEW f \in FirstTargets(spec), NEW g \in FirstTargets(spec), name[f] = name[g] PROVE f = g
  <2>1. /\ f \in DOMAIN topo /\ \A j \in 1..(f - 1) : name[j] # name[f]
        /\ g \in DOMAIN topo /\ \A j \in 1..(g - 1) : name[j] # name[g]
    BY Zenon, <1>2
  <2>2. f \in 1..(g - 1) \/ g \in 1..(f - 1) \/ f = g
    BY SMTT(30), <1>4, <2>1
  <2> QED BY Zenon, <1>6, <2>1, <2>2
<1> QED BY Zenon, <1>2, <1>5, <1>6 DEF name

\* The parts of the configuration that was written.
LEMMA ConfParts ==
  ASSUME NEW spec, Written(spec)
  PROVE  /\ conf.upstreams = {StreamUpstream(spec, nodes, i) : i \in FirstTargets(spec)}
         /\ conf.servers = {StreamServer(spec, i) : i \in {i \in FirstTargets(spec) : ListenPort(spec, i).ok}}
<1>1. conf = generateStreamNginxConfig(spec, nodes)
  BY Zenon DEF Written
<1> QED BY Zenon, <1>1 DEF generateStreamNginxConfig

LEMMA ConfResolver ==
  ASSUME NEW spec, Written(spec)
  PROVE  conf.resolver = svc.ann.resolver
<1>1. conf = generateStreamNginxConfig(spec, nodes) /\ spec = SpecOf(svc, topo)
  BY Zenon DEF Written
<1>2. spec.svc = svc
  BY Zenon, <1>1 DEF SpecOf
<1> QED BY Zenon, <1>1, <1>2 DEF generateStreamNginxConfig

LEMMA UpstreamFields ==
  ASSUME NEW spec, NEW i
  PROVE  /\ StreamUpstream(spec, nodes, i).name = UpstreamNames(spec)[i]
         /\ StreamUpstream(spec, nodes, i).algorithm = AlgorithmDirective(spec.algorithm)
         /\ StreamUpstream(spec, nodes, i).servers =
              UNION {UpstreamServers(spec, spec.topology[j], nodes) : j \in UpstreamTargets(UpstreamNames(spec), i)}
  BY Zenon DEF StreamUpstream

\* The server block of the i-th target.
ServesTarget(server, spec, i) ==
  /\ server.port = GetPortAnnotation(svc, topo[i].portName).val
  /\ server.udp = (topo[i].protocol = "UDP")
  /\ server.proxyPass = UpstreamNames(spec)[i]

LEMMA ServerFields ==
  ASSUME NEW spec, Written(spec), NEW i
  PROVE  /\ ListenPort(spec, i) = GetPortAnnotation(svc, topo[i].portName)
         /\ ServesTarget(StreamServer(spec, i), spec, i)
<1>1. spec.svc = svc /\ spec.topology = topo
  BY Zenon, SpecFields
<1> QED BY Zenon, <1>1 DEF ListenPort, StreamServer, ServesTarget

LEMMA ServerPort ==
  ASSUME NEW spec, Written(spec), NEW i
  PROVE  StreamServer(spec, i).port = ListenPort(spec, i).val
<1>1. ServesTarget(StreamServer(spec, i), spec, i) /\ ListenPort(spec, i) = GetPortAnnotation(svc, topo[i].portName)
  BY Zenon, ServerFields
<1> QED BY Zenon, <1>1 DEF ServesTarget

\* The nodes that stand for a target.
NodesFor(t) == IF svc.ann.nodeSet = "all" THEN DOMAIN nodes ELSE {t.node} \cap DOMAIN nodes

\* The addresses a target puts into its upstream.
AddressesOf(t) ==
  CASE svc.ann.upstreamType = "pod" -> {<<t.podIP, t.podPort>>}
    [] svc.ann.upstreamType = "cluster-ip" -> {<<svc.clusterIP, t.servicePort>>}
    [] OTHER -> {<<NodeIP(nodes[n]), t.nodePort>> : n \in NodesFor(t)}

\* The address of a node is of the type that the service asks for.
LEMMA NodeAddress ==
  ASSUME NEW node, NEW t
  PROVE  formatAddress(ValidateNodeAddressType(svc.ann.nodeAddressType), node, t)
           = <<NodeIP(node), t.nodePort>>
<1>1. CASE svc.ann.nodeAddressType = "external"
  BY Zenon, <1>1 DEF formatAddress, ValidateNodeAddressType, NodeIP
<1>2. CASE svc.ann.nodeAddressType # "external"
  BY Zenon, <1>2 DEF formatAddress, ValidateNodeAddressType, NodeIP
<1> QED BY Zenon, <1>1, <1>2

\* The three kinds of upstream.
LEMMA AddressesOfTarget ==
  ASSUME NEW spec, Written(spec), NEW t
  PROVE  UpstreamServers(spec, t, nodes) = AddressesOf(t)
<1> DEFINE type == svc.ann.upstreamType
<1>1. /\ spec.svc = svc /\ spec.clusterIP = svc.clusterIP
      /\ spec.upstreamType = ValidateUpstreamType(type)
  BY Zenon, SpecFields
<1>2. CASE type = "pod"
  <2>1. spec.upstreamType = "pod"
    BY Zenon, <1>1, <1>2 DEF ValidateUpstreamType
  <2>2. UpstreamServers(spec, t, nodes) = createPodStreamUpstream(spec, t)
    BY SMTT(30), <2>1 DEF UpstreamServers
  <2>3. AddressesOf(t) = {<<t.podIP, t.podPort>>}
    BY SMTT(30), <1>2 DEF AddressesOf
  <2> QED BY Zenon, <2>2, <2>3 DEF createPodStreamUpstream
<1>3. CASE type = "cluster-ip"
  <2>1. spec.upstreamType = "cluster-ip"
    BY Zenon, <1>1, <1>3 DEF ValidateUpstreamType
  <2>2. UpstreamServers(spec, t, nodes) = createClusterStreamUpstream(spec, t)
    BY SMTT(30), <2>1 DEF UpstreamServers
  <2>3. AddressesOf(t) = {<<svc.clusterIP, t.servicePort>>}
    BY SMTT(30), <1>3 DEF AddressesOf
  <2> QED BY Zenon, <1>1, <2>2, <2>3 DEF createClusterStreamUpstream
<1>4. CASE type # "pod" /\ type # "cluster-ip"
  <2>1. spec.upstreamType = "node"
    BY Zenon, <1>1, <1>4 DEF ValidateUpstreamType
  <2>2. UpstreamServers(spec, t, nodes) = createNodesStreamUpstream(spec, t, nodes)
    BY SMTT(30), <2>1 DEF UpstreamServers
  <2>3. AddressesOf(t) = {<<NodeIP(nodes[n]), t.nodePort>> : n \in NodesFor(t)}
    BY SMTT(30), <1>4 DEF AddressesOf
  <2>4. UpstreamNodes(spec, t, nodes) = {nodes[n] : n \in NodesFor(t)}
    <3>1. CASE svc.ann.nodeSet = "all"
      BY Zenon, <1>1, <3>1 DEF UpstreamNodes, NodesFor, ValidateNodeSet
    <3>2. CASE svc.ann.nodeSet # "all"
      BY Zenon, <1>1, <3>2 DEF UpstreamNodes, NodesFor, ValidateNodeSet
    <3> QED BY Zenon, <3>1, <3>2
  <2>5. createNodesStreamUpstream(spec, t, nodes) = {<<NodeIP(node), t.nodePort>> : node \in UpstreamNodes(spec, t, nodes)}
    BY Zenon, <1>1, NodeAddress DEF createNodesStreamUpstream
  <2>6. {<<NodeIP(node), t.nodePort>> : node \in {nodes[n] : n \in NodesFor(t)}}
          = {<<NodeIP(nodes[n]), t.nodePort>> : n \in NodesFor(t)}
    BY Zenon
  <2> QED BY ZenonT(60), <2>2, <2>3, <2>4, <2>5, <2>6
<1> QED BY Zenon, <1>2, <1>3, <1>4

-----------------------------------------------------------------------------
(* NGINX accepts the configuration *)

\* The nodes of the pods are known, with the addresses the service asks for, and
\* a service on nodes has node ports.
NodesKnown ==
  /\ DOMAIN nodes # {} /\ \A p \in pods : p.node \in DOMAIN nodes
  /\ \A n \in DOMAIN nodes : NodeIP(nodes[n]) # ""
  /\ ValidateUpstreamType(svc.ann.upstreamType) = "node" => svc.type # "ClusterIP"

\* What NGINX asks of the address of a server.
Reachable(a) == a[1] # "" /\ ValidPort(a[2])

LEMMA AddressParts ==
  ASSUME NEW host, NEW port
  PROVE  <<host, port>>[1] = host /\ <<host, port>>[2] = port
<1>1. <<host, port>>[1] = host
  BY SMTT(30)
<1>2. <<host, port>>[2] = port
  BY SMTT(30)
<1> QED BY Zenon, <1>1, <1>2

LEMMA ReachableAddress ==
  ASSUME NEW host, NEW port, host # "", IsPort(port)
  PROVE  Reachable(<<host, port>>)
  BY Zenon, AddressParts DEF Reachable, IsPort

\* A target puts at least one address into its upstream, and all have a host and
\* a port.
LEMMA AddressesAccepted ==
  ASSUME NEW spec, Written(spec), NodesKnown, NEW n \in DOMAIN topo
  PROVE  AddressesOf(topo[n]) # {} /\ \A a \in AddressesOf(topo[n]) : Reachable(a)
<1> DEFINE t == topo[n]
           type == svc.ann.upstreamType
<1>1. PICK i \in DOMAIN svc.ports, q \in DOMAIN svc.ports, p \in pods :
        t = Target(svc.ports[i], EndpointPort(svc.ports[q]), p)
  BY Zenon, TopologyTarget DEF TargetOfPort
<1>2. /\ t.node = p.node /\ t.podIP = p.ip /\ t.podPort = EndpointPort(svc.ports[q]).port
      /\ t.servicePort = svc.ports[i].port /\ t.nodePort = svc.ports[i].nodePort
  <2>1. MadeOf(t, svc.ports[i], svc.ports[q], p)
    BY Zenon, <1>1, TargetFields
  <2> QED BY Zenon, <2>1 DEF MadeOf
<1>0. ArePods(pods) /\ IsService(svc) /\ IsValidServiceType(svc)
  BY Zenon DEF Written, Managed, baseCheck, ValidateServiceObject
<1>3. p.ip # "" /\ svc.clusterIP # ""
  <2>1. p.ip # ""
    BY Zenon, <1>0, <1>1 DEF ArePods
  <2>2. svc.clusterIP # ""
    BY Zenon, <1>0 DEF IsService
  <2> QED BY Zenon, <2>1, <2>2
<1>8. IsPort(t.podPort) /\ IsPort(t.servicePort)
  BY Zenon, <1>0, <1>2 DEF IsService
<1>4. NodesFor(t) # {} /\ NodesFor(t) \subseteq DOMAIN nodes
  BY Zenon, <1>2 DEF NodesFor, NodesKnown
<1> HIDE DEF t
<1>5. CASE type = "pod"
  <2>1. AddressesOf(t) = {<<t.podIP, t.podPort>>}
    BY SMTT(30), <1>5 DEF AddressesOf
  <2>2. Reachable(<<t.podIP, t.podPort>>)
    BY Zenon, <1>2, <1>3, <1>8, ReachableAddress
  <2> QED BY Zenon, <2>1, <2>2 DEF t
<1>6. CASE type = "cluster-ip"
  <2>1. AddressesOf(t) = {<<svc.clusterIP, t.servicePort>>}
    BY SMTT(30), <1>6 DEF AddressesOf
  <2>2. Reachable(<<svc.clusterIP, t.servicePort>>)
    BY Zenon, <1>3, <1>8, ReachableAddress
  <2> QED BY Zenon, <2>1, <2>2 DEF t
<1>7. CASE type # "pod" /\ type # "cluster-ip"
  <2>1. AddressesOf(t) = {<<NodeIP(nodes[k]), t.nodePort>> : k \in NodesFor(t)}
    BY SMTT(30), <1>7 DEF AddressesOf
  <2>2. IsPort(t.nodePort)
    <3>1. svc.type \in {"NodePort", "LoadBalancer"}
      BY Zenon, <1>0, <1>7 DEF NodesKnown, ValidateUpstreamType, IsValidServiceType
    <3> QED BY Zenon, <1>0, <1>2, <3>1 DEF IsService
  <2>3. ASSUME NEW k \in NodesFor(t) PROVE Reachable(<<NodeIP(nodes[k]), t.nodePort>>)
    BY Zenon, <1>4, <2>2, ReachableAddress DEF NodesKnown
  <2> QED BY Zenon, <1>4, <2>1, <2>3 DEF t
<1> QED BY Zenon, <1>5, <1>6, <1>7

\* NGINX has no objection to an upstream by itself.
LEMMA UpstreamIsAccepted ==
  ASSUME NEW spec, Written(spec), NodesKnown, ValidateAlgorithm(svc.ann.algorithm) # "least_time",
         NEW f \in FirstTargets(spec)
  PROVE  UpstreamAccepted(StreamUpstream(spec, nodes, f))
<1> DEFINE u == StreamUpstream(spec, nodes, f)
           same == UpstreamTargets(UpstreamNames(spec), f)
<1>1. /\ u.algorithm = AlgorithmDirective(spec.algorithm)
      /\ u.servers = UNION {UpstreamServers(spec, spec.topology[j], nodes) : j \in same}
  BY ZenonT(60), UpstreamFields
<1>2. f \in DOMAIN topo
  BY Zenon, FirstOfName
<1>3. f \in same /\ same \subseteq DOMAIN topo
  BY Zenon, <1>2, NameOfTarget DEF UpstreamTargets
<1>4. \A j \in same : UpstreamServers(spec, spec.topology[j], nodes) = AddressesOf(topo[j])
  BY Zenon, SpecFields, AddressesOfTarget
<1> HIDE DEF u, same
<1>5. u.servers = UNION {AddressesOf(topo[j]) : j \in same}
  BY Zenon, <1>1, <1>4
<1>6. \A j \in same : AddressesOf(topo[j]) # {} /\ \A a \in AddressesOf(topo[j]) : Reachable(a)
  BY Zenon, <1>3, AddressesAccepted
<1>7. u.servers # {} /\ \A a \in u.servers : Reachable(a)
  BY Zenon, <1>3, <1>5, <1>6
<1>8. u.algorithm \in {"", "least_conn"}
  <2>1. spec.algorithm = ValidateAlgorithm(svc.ann.algorithm)
    BY Zenon, SpecFields
  <2> QED BY Zenon, <1>1, <2>1 DEF AlgorithmDirective, ValidateAlgorithm
<1> QED BY Zenon, <1>7, <1>8 DEF UpstreamAccepted, Reachable, u

\* A target whose port name has an annotation is of a port that listens: no
\* annotation has an empty name, so the name looked up is the port's own.
LEMMA ListensForPort ==
  ASSUME NEW spec, Written(spec), NEW n \in DOMAIN topo, ListenPort(spec, n).ok
  PROVE  \E q \in DOMAIN svc.ports :
           topo[n].portName = svc.ports[q].name /\ PortAnnotation(svc, q) = ListenPort(spec, n)
<1>1. PICK i \in DOMAIN svc.ports, q \in DOMAIN svc.ports, p \in pods :
        topo[n] = Target(svc.ports[i], EndpointPort(svc.ports[q]), p)
  BY Zenon, TopologyTarget DEF TargetOfPort
<1>2. topo[n].portName = svc.ports[q].name
  <2>1. MadeOf(topo[n], svc.ports[i], svc.ports[q], p)
    BY Zenon, <1>1, TargetFields
  <2> QED BY Zenon, <2>1 DEF MadeOf
<1>3. ListenPort(spec, n) = GetPortAnnotation(svc, svc.ports[q].name)
  <2>1. ListenPort(spec, n) = GetPortAnnotation(svc, topo[n].portName)
    BY Zenon, ServerFields
  <2> QED BY Zenon, <1>2, <2>1
<1>4. svc.ports[q].name # <<>>
  <2>1. [ok |-> FALSE, val |-> 0].ok = FALSE
    BY SMTT(30)
  <2>2. <<>> \notin DOMAIN svc.ann.port
    BY Zenon DEF Written, IsService
  <2> QED BY Zenon, <1>3, <2>1, <2>2 DEF GetPortAnnotation
<1>5. PortAnnotation(svc, q) = ListenPort(spec, n)
  BY Zenon, <1>3, <1>4 DEF PortAnnotation
<1> QED BY Zenon, <1>2, <1>5

AnnotationsDiffer ==
  \A i, j \in DOMAIN svc.ports : Listens(i) /\ Listens(j) /\ i # j =>
    PortAnnotation(svc, i).val # PortAnnotation(svc, j).val

\* The server blocks of two targets differ in their listen ports, when the
\* annotations of the ports do.
LEMMA ListenPortsDiffer ==
  ASSUME NEW spec, Written(spec), NEW f \in FirstTargets(spec), NEW g \in FirstTargets(spec),
         ListenPort(spec, f).ok, ListenPort(spec, g).ok,
         ListenPort(spec, f).val = ListenPort(spec, g).val, AnnotationsDiffer
  PROVE  f = g
<1>1. f \in DOMAIN topo /\ g \in DOMAIN topo
  BY Zenon, FirstOfName
<1>2. PICK i \in DOMAIN svc.ports : topo[f].portName = svc.ports[i].name /\ PortAnnotation(svc, i) = ListenPort(spec, f)
  BY Zenon, <1>1, ListensForPort
<1>3. PICK j \in DOMAIN svc.ports : topo[g].portName = svc.ports[j].name /\ PortAnnotation(svc, j) = ListenPort(spec, g)
  BY Zenon, <1>1, ListensForPort
<1>4. i = j
  BY Zenon, <1>2, <1>3 DEF Listens, AnnotationsDiffer
<1>5. UpstreamNames(spec)[f] = UpstreamNames(spec)[g]
  BY ZenonT(60), <1>1, <1>2, <1>3, <1>4, NameOfTarget
<1> QED BY Zenon, <1>5, FirstOfName

\* The configuration of a service passes "nginx -t" by itself.
THEOREM GeneratedIsAcceptedHolds == Spec => []GeneratedIsAccepted
<1>1. Inv => GeneratedIsAccepted
  <2> SUFFICES ASSUME Inv, step = "written", NodesKnown, AnnotationsDiffer,
                      svc.ann.resolver \in Resolvers \cup {""},
                      ValidateAlgorithm(svc.ann.algorithm) # "least_time"
               PROVE  NginxAccepts([c \in {ConfigName(KeyOf(svc))} |-> conf])
    BY Zenon DEF GeneratedIsAccepted, NodesKnown, AnnotationsDiffer
  <2> DEFINE spec == SpecOf(svc, topo)
             files == [c \in {ConfigName(KeyOf(svc))} |-> conf]
  <2>1. Written(spec)
    BY Zenon, WhenWritten
  <2> HIDE DEF spec, files
  <2>2. /\ conf.upstreams = {StreamUpstream(spec, nodes, i) : i \in FirstTargets(spec)}
        /\ conf.servers = {StreamServer(spec, i) : i \in {i \in FirstTargets(spec) : ListenPort(spec, i).ok}}
    BY Zenon, <2>1, ConfParts
  <2>3. \A u \in conf.upstreams : UpstreamAccepted(u)
    <3>1. ASSUME NEW f \in FirstTargets(spec) PROVE UpstreamAccepted(StreamUpstream(spec, nodes, f))
      BY Zenon, <2>1, UpstreamIsAccepted
    <3> QED BY Zenon, <2>2, <3>1
  <2>4. \A u, w \in conf.upstreams : u.name = w.name => u = w
    <3> SUFFICES ASSUME NEW f \in FirstTargets(spec), NEW g \in FirstTargets(spec),
                        StreamUpstream(spec, nodes, f).name = StreamUpstream(spec, nodes, g).name
                 PROVE  f = g
      BY Zenon, <2>2
    <3>1. UpstreamNames(spec)[f] = UpstreamNames(spec)[g]
      BY ZenonT(60), UpstreamFields
    <3> QED BY Zenon, <2>1, <3>1, FirstOfName
  <2>5. \A s, t \in conf.servers : s.port = t.port => s = t
    <3> SUFFICES ASSUME NEW f \in FirstTargets(spec), NEW g \in FirstTargets(spec),
                        ListenPort(spec, f).ok, ListenPort(spec, g).ok,
                        StreamServer(spec, f).port = StreamServer(spec, g).port
                 PROVE  f = g
      BY Zenon, <2>2
    <3>1. StreamServer(spec, f).port = ListenPort(spec, f).val
      BY Zenon, <2>1, ServerPort
    <3>2. StreamServer(spec, g).port = ListenPort(spec, g).val
      BY Zenon, <2>1, ServerPort
    <3> QED BY Zenon, <2>1, <3>1, <3>2, ListenPortsDiffer
  <2>6. \A s \in conf.servers : ValidPort(s.port)
    <3> SUFFICES ASSUME NEW f \in FirstTargets(spec), ListenPort(spec, f).ok
                 PROVE  ValidPort(StreamServer(spec, f).port)
      BY Zenon, <2>2
    <3>1. f \in DOMAIN topo
      BY Zenon, <2>1, FirstOfName
    <3>2. PICK q \in DOMAIN svc.ports : PortAnnotation(svc, q) = ListenPort(spec, f)
      BY Zenon, <2>1, <3>1, ListensForPort
    <3>3. InPortRange(ListenPort(spec, f).val)
      BY Zenon, <2>1, <3>2 DEF Written, Managed, baseCheck
    <3>4. StreamServer(spec, f).port = ListenPort(spec, f).val
      BY Zenon, <2>1, ServerPort
    <3> QED BY Zenon, <3>3, <3>4, SameRange
  <2>7. conf.resolver = svc.ann.resolver
    BY Zenon, <2>1, ConfResolver
  <2>8. \A c, d \in DOMAIN files : c = d /\ files[c] = conf
    BY Zenon DEF files
  <2>9. NginxAccepts(files)
    BY ZenonT(60), <2>3, <2>4, <2>5, <2>6, <2>7, <2>8 DEF NginxAccepts
  <2> QED BY Zenon, <2>9 DEF files
<1> QED BY <1>1, InvHolds, PTL

-----------------------------------------------------------------------------
(* Traffic reaches the service *)

\* What follows a common beginning can be told from the whole.
LEMMA Cancels ==
  ASSUME NEW z \in Seq(STRING), NEW x \in Seq(STRING), NEW y \in Seq(STRING), z \o x = z \o y
  PROVE  x = y
<1>1. Len(x) = Len(y) /\ Len(z) \in Nat
  BY SMTT(30)
<1>2. \A k \in 1..Len(x) : x[k] = (z \o x)[Len(z) + k] /\ y[k] = (z \o y)[Len(z) + k]
  BY SMTT(30), <1>1
<1> QED BY SMTT(30), <1>1, <1>2

\* Within a service the name of an upstream tells which port it is of.
LEMMA NamesDiffer ==
  ASSUME NEW s, IsService(s), NEW i \in DOMAIN s.ports, NEW j \in DOMAIN s.ports,
         s.ports[i].name # <<>>, s.ports[j].name # <<>>,
         getNameForStreamUpstream(s, s.ports[i].name) = getNameForStreamUpstream(s, s.ports[j].name)
  PROVE  i = j
<1> DEFINE x == s.ports[i].name
           y == s.ports[j].name
<1>1. s.ns \in Seq(STRING) /\ s.name \in Seq(STRING) /\ x \in Seq(STRING) /\ y \in Seq(STRING)
  BY Zenon DEF IsService
<1>2. (s.ns \o s.name) \o x = (s.ns \o s.name) \o y
  BY Zenon DEF getNameForStreamUpstream
<1>3. x = y => i = j
  BY Zenon DEF IsService
<1> HIDE DEF x, y
<1>4. s.ns \o s.name \in Seq(STRING)
  BY SMTT(30), <1>1
<1> QED BY ZenonT(60), <1>1, <1>2, <1>3, <1>4, Cancels

\* The name of the upstream of the i-th port.
PortUpstream(i) == getNameForStreamUpstream(svc, svc.ports[i].name)

\* The parts of the target that a pod is for a port.
LEMMA PodTargetFields ==
  ASSUME PortsDistinct, NEW i \in DOMAIN svc.ports, NEW p
  PROVE  MadeOf(PodTarget(i, p), svc.ports[i], svc.ports[i], p)
  BY Zenon, TargetFields DEF PodTarget

\* The targets with the upstream name of a port are the pods at that port.
LEMMA TargetsByName ==
  ASSUME Inv, PortsDistinct, NEW spec, Written(spec), NEW i \in DOMAIN svc.ports, NEW n \in DOMAIN topo
  PROVE  UpstreamNames(spec)[n] = PortUpstream(i) <=> \E p \in pods : topo[n] = PodTarget(i, p)
<1>1. PICK q \in DOMAIN svc.ports : \E p \in pods : topo[n] = PodTarget(q, p)
  <2>1. PICK q \in DOMAIN svc.ports : TargetOfPort(topo[n], svc, pods, q)
    BY Zenon, TopologyTarget
  <2> QED BY Zenon, <2>1, PodTargets
<1>2. ASSUME NEW k \in DOMAIN svc.ports, NEW p \in pods, topo[n] = PodTarget(k, p)
      PROVE  UpstreamNames(spec)[n] = PortUpstream(k)
  <2>1. MadeOf(topo[n], svc.ports[k], svc.ports[k], p)
    BY Zenon, <1>2, PodTargetFields
  <2>2. topo[n].portName = svc.ports[k].name
    BY Zenon, <2>1 DEF MadeOf
  <2> QED BY Zenon, <2>2, NameOfTarget DEF PortUpstream
<1>3. UpstreamNames(spec)[n] = PortUpstream(q)
  BY Zenon, <1>1, <1>2
<1>4. PortUpstream(q) = PortUpstream(i) => q = i
  <2>1. IsService(svc) /\ svc.ports[i].name # <<>> /\ svc.ports[q].name # <<>>
    BY Zenon DEF Written, PortsDistinct
  <2> QED BY Zenon, <2>1, NamesDiffer DEF PortUpstream
<1> QED BY ZenonT(60), <1>1, <1>2, <1>3, <1>4

\* Every pod is a target of every port.
LEMMA PodsInTopology ==
  ASSUME Inv, PortsDistinct, NEW spec, Written(spec), NEW i \in DOMAIN svc.ports, NEW p \in pods
  PROVE  \E n \in DOMAIN topo : topo[n] = PodTarget(i, p)
<1>1. TargetOfPort(PodTarget(i, p), svc, pods, i)
  BY Zenon, PodTargets
<1>2. PodTarget(i, p) \in Range(topo)
  BY Zenon, <1>1 DEF Written, ListsAllTargets
<1> QED BY Zenon, <1>2 DEF Range

\* There are pods when there is a topology.
LEMMA PodsThere ==
  ASSUME NEW spec, Written(spec)
  PROVE  pods # {}
<1>1. topo \in Seq(TargetSet(svc, pods)) /\ topo # <<>>
  BY Zenon DEF Written, ListsAllTargets
<1>2. 1 \in DOMAIN topo
  BY SMTT(30), <1>1
<1> QED BY Zenon, <1>2, TopologyTarget DEF TargetOfPort

\* Behind the upstream of a port are the addresses of all its pods.
LEMMA ServersOfPort ==
  ASSUME Inv, PortsDistinct, NEW spec, Written(spec), NEW i \in DOMAIN svc.ports,
         NEW f \in FirstTargets(spec), UpstreamNames(spec)[f] = PortUpstream(i)
  PROVE  StreamUpstream(spec, nodes, f).servers = UNION {AddressesOf(PodTarget(i, p)) : p \in pods}
<1> DEFINE same == UpstreamTargets(UpstreamNames(spec), f)
<1>1. StreamUpstream(spec, nodes, f).servers
        = UNION {UpstreamServers(spec, spec.topology[j], nodes) : j \in same}
  BY Zenon, UpstreamFields
<1>2. \A j \in same : UpstreamServers(spec, spec.topology[j], nodes) = AddressesOf(topo[j])
  BY Zenon, SpecFields, AddressesOfTarget
<1>3. ASSUME NEW j PROVE j \in same <=> j \in DOMAIN topo /\ UpstreamNames(spec)[j] = PortUpstream(i)
  BY Zenon, NameOfTarget DEF UpstreamTargets
<1> HIDE DEF same
<1>4. StreamUpstream(spec, nodes, f).servers = UNION {AddressesOf(topo[j]) : j \in same}
  BY Zenon, <1>1, <1>2
<1>5. \A j \in same : \E p \in pods : topo[j] = PodTarget(i, p)
  BY Zenon, <1>3, TargetsByName
<1>6. \A p \in pods : \E j \in same : topo[j] = PodTarget(i, p)
  BY ZenonT(60), <1>3, TargetsByName, PodsInTopology
<1>7. UNION {AddressesOf(topo[j]) : j \in same} = UNION {AddressesOf(PodTarget(i, p)) : p \in pods}
  BY Zenon, <1>5, <1>6
<1> QED BY Zenon, <1>4, <1>7

\* These are the backends of the port.
LEMMA AddressesAreBackends ==
  ASSUME PortsDistinct, NEW i \in DOMAIN svc.ports, pods # {}
  PROVE  UNION {AddressesOf(PodTarget(i, p)) : p \in pods} = Backends(i)
<1> DEFINE type == svc.ann.upstreamType
           all == UNION {AddressesOf(PodTarget(i, p)) : p \in pods}
<1>1. ASSUME NEW p
      PROVE  /\ PodTarget(i, p).podIP = p.ip /\ PodTarget(i, p).podPort = svc.ports[i].targetPort.int
             /\ PodTarget(i, p).servicePort = svc.ports[i].port
             /\ PodTarget(i, p).nodePort = svc.ports[i].nodePort /\ PodTarget(i, p).node = p.node
  <2>1. MadeOf(PodTarget(i, p), svc.ports[i], svc.ports[i], p) /\ svc.ports[i].targetPort.type = "Int"
    BY Zenon, PodTargetFields DEF PortsDistinct
  <2> QED BY Zenon, <2>1 DEF MadeOf
<1>2. CASE type = "pod"
  <2> DEFINE A(p) == <<p.ip, svc.ports[i].targetPort.int>>
  <2>1. Backends(i) = {A(p) : p \in pods}
    BY SMTT(30), <1>2 DEF Backends
  <2>2. \A t : AddressesOf(t) = {<<t.podIP, t.podPort>>}
    BY SMTT(30), <1>2 DEF AddressesOf
  <2>3. \A p \in pods : AddressesOf(PodTarget(i, p)) = {A(p)}
    BY Zenon, <1>1, <2>2
  <2> HIDE DEF A
  <2>4. all = UNION {{A(p)} : p \in pods}
    BY Zenon, <2>3
  <2>5. UNION {{A(p)} : p \in pods} = {A(p) : p \in pods}
    BY Zenon
  <2> QED BY ZenonT(60), <2>1, <2>4, <2>5
<1>3. CASE type = "cluster-ip"
  <2>1. Backends(i) = {<<svc.clusterIP, svc.ports[i].port>>}
    BY SMTT(30), <1>3 DEF Backends
  <2>2. \A t : AddressesOf(t) = {<<svc.clusterIP, t.servicePort>>}
    BY SMTT(30), <1>3 DEF AddressesOf
  <2>3. \A p \in pods : AddressesOf(PodTarget(i, p)) = {<<svc.clusterIP, svc.ports[i].port>>}
    BY Zenon, <1>1, <2>2
  <2> QED BY ZenonT(60), <2>1, <2>3
<1>4. CASE type # "pod" /\ type # "cluster-ip"
  <2> DEFINE N == IF svc.ann.nodeSet = "all" THEN DOMAIN nodes ELSE {p.node : p \in pods} \cap DOMAIN nodes
             A(n) == <<NodeIP(nodes[n]), svc.ports[i].nodePort>>
  <2>1. Backends(i) = {A(n) : n \in N}
    BY SMTT(30), <1>4 DEF Backends
  <2>2. \A t : AddressesOf(t) = {<<NodeIP(nodes[n]), t.nodePort>> : n \in NodesFor(t)}
    BY SMTT(30), <1>4 DEF AddressesOf
  <2>3. \A p \in pods : AddressesOf(PodTarget(i, p)) = {A(n) : n \in NodesFor(PodTarget(i, p))}
    BY Zenon, <1>1, <2>2
  <2>4. ASSUME NEW n PROVE n \in N <=> \E p \in pods : n \in NodesFor(PodTarget(i, p))
    <3>1. CASE svc.ann.nodeSet = "all"
      BY Zenon, <3>1 DEF NodesFor
    <3>2. CASE svc.ann.nodeSet # "all"
      <4>1. \A p : NodesFor(PodTarget(i, p)) = {p.node} \cap DOMAIN nodes
        BY Zenon, <1>1, <3>2 DEF NodesFor
      <4> QED BY Zenon, <3>2, <4>1
    <3> QED BY Zenon, <3>1, <3>2
  <2> HIDE DEF N, A
  <2>5. UNION {{A(n) : n \in NodesFor(PodTarget(i, p))} : p \in pods} = {A(n) : n \in N}
    <3>1. ASSUME NEW p \in pods, NEW n \in NodesFor(PodTarget(i, p)) PROVE A(n) \in {A(k) : k \in N}
      BY Zenon, <2>4
    <3>2. ASSUME NEW n \in N PROVE A(n) \in UNION {{A(k) : k \in NodesFor(PodTarget(i, p))} : p \in pods}
      <4>1. PICK p \in pods : n \in NodesFor(PodTarget(i, p))
        BY Zenon, <2>4
      <4>2. A(n) \in {A(k) : k \in NodesFor(PodTarget(i, p))}
        BY Zenon, <4>1
      <4> QED BY Zenon, <4>2
    <3>3. UNION {{A(n) : n \in NodesFor(PodTarget(i, p))} : p \in pods} \subseteq {A(n) : n \in N}
      <4> SUFFICES ASSUME NEW a \in UNION {{A(n) : n \in NodesFor(PodTarget(i, p))} : p \in pods}
                   PROVE  a \in {A(n) : n \in N}
        BY Zenon
      <4>1. PICK p \in pods : a \in {A(n) : n \in NodesFor(PodTarget(i, p))}
        BY Zenon
      <4>2. PICK n \in NodesFor(PodTarget(i, p)) : a = A(n)
        BY Zenon, <4>1
      <4> QED BY Zenon, <3>1, <4>2
    <3>4. {A(n) : n \in N} \subseteq UNION {{A(n) : n \in NodesFor(PodTarget(i, p))} : p \in pods}
      BY Zenon, <3>2
    <3> QED BY Zenon, <3>3, <3>4
  <2>6. all = UNION {{A(n) : n \in NodesFor(PodTarget(i, p))} : p \in pods}
    BY Zenon, <2>3
  <2> QED BY ZenonT(60), <2>1, <2>5, <2>6
<1> QED BY Zenon, <1>2, <1>3, <1>4

\* A port that listens has its server block, which passes to its backends.
LEMMA PortIsServed ==
  ASSUME Inv, PortsDistinct, NEW spec, Written(spec), NEW i \in DOMAIN svc.ports, Listens(i)
  PROVE  \E s \in conf.servers, u \in conf.upstreams :
           /\ s.port = PortAnnotation(svc, i).val /\ s.udp = (svc.ports[i].protocol = "UDP")
           /\ s.proxyPass = u.name /\ u.servers = Backends(i)
<1>1. PICK p \in pods : TRUE
  BY Zenon, PodsThere
<1>2. PICK n \in DOMAIN topo : topo[n] = PodTarget(i, p)
  BY Zenon, PodsInTopology
<1>3. UpstreamNames(spec)[n] = PortUpstream(i)
  BY Zenon, <1>2, TargetsByName
<1>4. PICK f \in FirstTargets(spec) : UpstreamNames(spec)[f] = PortUpstream(i)
  <2>1. \E f \in FirstTargets(spec) : UpstreamNames(spec)[f] = UpstreamNames(spec)[n]
    BY Zenon, FirstOfName
  <2> QED BY Zenon, <1>3, <2>1
<1>5. f \in DOMAIN topo
  BY Zenon, FirstOfName
<1>6. PICK r \in pods : topo[f] = PodTarget(i, r)
  BY ZenonT(60), <1>4, <1>5, TargetsByName
<1>7. topo[f].portName = svc.ports[i].name /\ topo[f].protocol = svc.ports[i].protocol
  <2>1. MadeOf(topo[f], svc.ports[i], svc.ports[i], r)
    BY ZenonT(60), <1>6, PodTargetFields
  <2> QED BY Zenon, <2>1 DEF MadeOf
<1>8. GetPortAnnotation(svc, topo[f].portName) = PortAnnotation(svc, i)
  BY Zenon, <1>7 DEF PortAnnotation, PortsDistinct
<1> DEFINE s == StreamServer(spec, f)
           u == StreamUpstream(spec, nodes, f)
<1>9. ServesTarget(s, spec, f) /\ ListenPort(spec, f).ok
  <2>1. ServesTarget(s, spec, f) /\ ListenPort(spec, f) = GetPortAnnotation(svc, topo[f].portName)
    BY Zenon, ServerFields
  <2> QED BY Zenon, <1>8, <2>1 DEF Listens
<1>10. s \in conf.servers /\ u \in conf.upstreams
  <2>1. /\ conf.upstreams = {StreamUpstream(spec, nodes, k) : k \in FirstTargets(spec)}
        /\ conf.servers = {StreamServer(spec, k) : k \in {k \in FirstTargets(spec) : ListenPort(spec, k).ok}}
    BY Zenon, ConfParts
  <2>2. f \in {k \in FirstTargets(spec) : ListenPort(spec, k).ok}
    BY ZenonT(60), <1>4, <1>9
  <2> QED BY Zenon, <2>1, <2>2
<1>11. u.name = UpstreamNames(spec)[f]
  BY Zenon, UpstreamFields
<1>12. u.servers = Backends(i)
  <2>1. u.servers = UNION {AddressesOf(PodTarget(i, x)) : x \in pods}
    BY Zenon, <1>4, ServersOfPort
  <2> HIDE DEF u
  <2> QED BY ZenonT(60), <1>1, <2>1, AddressesAreBackends
<1> HIDE DEF s, u
<1>13. s.port = PortAnnotation(svc, i).val /\ s.proxyPass = u.name
  BY ZenonT(60), <1>8, <1>9, <1>11 DEF ServesTarget
<1>14. s.udp = (svc.ports[i].protocol = "UDP")
  BY ZenonT(60), <1>7, <1>9 DEF ServesTarget
<1> QED BY ZenonT(60), <1>10, <1>12, <1>13, <1>14

\* End to end, clients of each annotated port reach exactly the backends of that
\* port, and nothing else listens.
THEOREM TrafficReachesServiceHolds == Spec => []TrafficReachesService
<1>1. Inv => TrafficReachesService
  <2> SUFFICES ASSUME Inv, step = "written", PortsDistinct PROVE TrafficReachesService
    BY Zenon DEF TrafficReachesService
  <2> DEFINE spec == SpecOf(svc, topo)
  <2>1. Written(spec)
    BY Zenon, WhenWritten
  <2> HIDE DEF spec
  <2>2. ASSUME NEW i \in DOMAIN svc.ports, Listens(i)
        PROVE  \E s \in conf.servers, u \in conf.upstreams :
                 /\ s.port = PortAnnotation(svc, i).val /\ s.udp = (svc.ports[i].protocol = "UDP")
                 /\ s.proxyPass = u.name /\ u.servers = Backends(i)
    BY ZenonT(60), <2>1, <2>2, PortIsServed
  <2>3. ASSUME NEW s \in conf.servers
        PROVE  \E i \in DOMAIN svc.ports : Listens(i) /\ s.port = PortAnnotation(svc, i).val
    <3>1. PICK f \in FirstTargets(spec) : ListenPort(spec, f).ok /\ s = StreamServer(spec, f)
      BY ZenonT(60), <2>1, <2>3, ConfParts
    <3>2. f \in DOMAIN topo
      BY Zenon, <2>1, FirstOfName
    <3>3. s.port = ListenPort(spec, f).val
      BY ZenonT(60), <2>1, <3>1, ServerPort
    <3>4. PICK q \in DOMAIN svc.ports : PortAnnotation(svc, q) = ListenPort(spec, f)
      BY ZenonT(60), <2>1, <3>1, <3>2, ListensForPort
    <3> QED BY ZenonT(60), <3>1, <3>3, <3>4 DEF Listens
  <2> QED BY Zenon, <2>2, <2>3 DEF TrafficReachesService
<1> QED BY <1>1, InvHolds, PTL
=============================================================================
