------------------------ MODULE HTTPConfiguratorProofs -----------------------
(***************************************************************************)
(* Proofs about HTTPConfigurator, for any Ingresses and any contexts.      *)
(*                                                                         *)
(* The properties relate what NGINX runs, or a file, to the Ingress it was *)
(* made from.  What is inductive are three things.  Every file is what     *)
(* generateNginxIngressCfg makes of its Ingress and of the context asked   *)
(* for last (FilesAsMade).  So is what NGINX runs, which it has accepted,  *)
(* and which is what was given once a reload succeeded (RunsWhatWasMade).  *)
(* The file of every secret was written, and has the newest contents of a  *)
(* secret whose file it is (SecretsWritten), in what NGINX runs too.  The  *)
(* rest is about what the generator makes of one Ingress.                  *)
(***************************************************************************)
EXTENDS HTTPConfigurator, WellFoundedInduction, TLAPS

Generated(gs) == [n \in DOMAIN gs |-> generateNginxIngressCfg(gs[n].of, gs[n].context)]

\* No two paths of a rule, and no two locations of a server, are the same.
OwnPathsDiffer(rule) ==
  \A p, q \in DOMAIN rule.paths :
    pathOrDefault(rule.paths[p].path) = pathOrDefault(rule.paths[q].path) => p = q
NoPathTwice(locations) ==
  \A p, q \in DOMAIN locations : locations[p].path = locations[q].path => p = q

FilesAsMade ==
  /\ config = asked
  /\ confd = Generated(given)
  /\ \A n \in DOMAIN given : n \in Names /\ given[n].of \in IngressExs(n)
  /\ \A o \in op : o.name \in Names /\ o.of \in IngressExs(o.name)
  /\ mainCfg.dhparam => dhparam # {}

\* What NGINX works with was accepted, and is what was given, or will be, unless the
\* last reload failed.
RunsWhatWasMade ==
  /\ running.confd = Generated(running.given)
  /\ \A s \in ServersOf(running.confd) : NoPathTwice(s.locations)
  /\ \A n \in DOMAIN running.given : n \in Names /\ running.given[n].of \in IngressExs(n)
  /\ op = {} /\ reloadErr = "" => hup \/ (running.given = given /\ running.latest = latest)

KeyPem(k) == k[1] \o dash \o k[2]

\* Every secret of an Ingress was seen, and each file has what was seen last of one
\* of the secrets it is for.
Written(gs, secrets, pems) ==
  /\ \A n \in DOMAIN gs : SecretKeys(gs[n].of) \subseteq DOMAIN secrets
  /\ \A k \in DOMAIN secrets : KeyPem(k) \in DOMAIN pems
  /\ \A pem \in DOMAIN pems : \E k \in DOMAIN secrets : KeyPem(k) = pem /\ pems[pem] = secrets[k]

SecretsWritten ==
  /\ Written(given, latest, ssl)
  /\ Written(running.given, running.latest, running.ssl)
  /\ \A o \in op : SecretKeys(o.of) \subseteq DOMAIN latest

RuleServer(ingEx, cfg, rule) == HTTPServer(ingEx, cfg, rule.host, Locations(ingEx, cfg, rule))
DefaultBackendServer(ingEx, cfg) == HTTPServer(ingEx, cfg, emptyHost, DefaultLocation(ingEx, cfg))

-----------------------------------------------------------------------------
(* Servers *)

\* Where the elements of two lists are in the one made of them.
Joins(c, a, b) ==
  /\ DOMAIN c = 1..(Len(a) + Len(b)) /\ Len(a) \in Nat /\ Len(b) \in Nat
  /\ \A i \in 1..Len(a) : c[i] = a[i]
  /\ \A i \in 1..Len(b) : Len(a) + i \in DOMAIN c /\ c[Len(a) + i] = b[i]
  /\ \A i \in DOMAIN c : i \notin 1..Len(a) => \E k \in 1..Len(b) : i = Len(a) + k /\ c[i] = b[k]

\* Appending one list to another leaves the elements of both in their order.
LEMMA Joining ==
  ASSUME NEW A, NEW B, NEW a \in Seq(A), NEW b \in Seq(B)
  PROVE  Joins(a \o b, a, b)
<1> DEFINE c == a \o b
<1>1. /\ DOMAIN c = 1..(Len(a) + Len(b)) /\ Len(a) \in Nat /\ Len(b) \in Nat
      /\ \A i \in 1..Len(a) : c[i] = a[i]
  OBVIOUS
<1>2. ASSUME NEW i \in 1..Len(b) PROVE Len(a) + i \in DOMAIN c /\ c[Len(a) + i] = b[i]
  OBVIOUS
<1>3. ASSUME NEW i \in DOMAIN c, i \notin 1..Len(a)
      PROVE  i - Len(a) \in 1..Len(b) /\ i = Len(a) + (i - Len(a))
  BY SMTT(30), <1>1, <1>3
<1> QED BY ZenonT(60), <1>1, <1>2, <1>3 DEF Joins

\* Each server is that of a rule, or that of the default backend.
ServersMade(ingEx, cfg, rules, servers) ==
  /\ DOMAIN rules \subseteq DOMAIN servers
  /\ \A r \in DOMAIN rules : servers[r] = RuleServer(ingEx, cfg, rules[r])
  /\ \A r \in DOMAIN servers \ DOMAIN rules : servers[r] = DefaultBackendServer(ingEx, cfg)

\* An Ingress has a server for each rule with paths, in their order, and behind
\* them at most one, that of the default backend.
LEMMA Servers ==
  ASSUME NEW ingEx, IsIngress(ingEx.ing), NEW default
  PROVE  ServersMade(ingEx, createIngressConfig(default, ingEx.ing.ann), HTTPRules(ingEx.ing),
                     generateNginxIngressCfg(ingEx, default).servers)
<1> DEFINE cfg == createIngressConfig(default, ingEx.ing.ann)
           rules == HTTPRules(ingEx.ing)
           servers == generateNginxIngressCfg(ingEx, default).servers
<1> DEFINE last == DefaultBackendServer(ingEx, cfg)
           of == [r \in DOMAIN rules |-> RuleServer(ingEx, cfg, rules[r])]
           rest == IF ingEx.ing.rules = <<>> /\ ingEx.ing.backend # <<>> THEN <<last>> ELSE <<>>
<1>1. servers = of \o rest
  BY Zenon DEF generateNginxIngressCfg, RuleServer, DefaultBackendServer
<1>2. rules \in Seq(Range(ingEx.ing.rules))
  BY Zenon DEF IsIngress
<1> HIDE DEF last
<1>3. /\ of \in Seq(Range(of)) /\ Len(of) = Len(rules) /\ Len(rules) \in Nat
      /\ DOMAIN rules = 1..Len(rules)
  BY SMTT(30), <1>2 DEF Range
<1>4. /\ rest \in Seq({last}) /\ Len(rest) \in {0, 1}
      /\ \A i \in DOMAIN rest : rest[i] = last
  <2>1. <<last>> \in Seq({last}) /\ Len(<<last>>) = 1 /\ \A i \in DOMAIN <<last>> : <<last>>[i] = last
    OBVIOUS
  <2>2. <<>> \in Seq({last}) /\ Len(<<>>) = 0 /\ \A i \in DOMAIN <<>> : <<>>[i] = last
    OBVIOUS
  <2> HIDE DEF rest
  <2>3. rest = <<last>> \/ rest = <<>>
    BY Zenon DEF rest
  <2> QED BY Zenon, <2>1, <2>2, <2>3
<1> HIDE DEF of, rest
<1>5. /\ DOMAIN servers = 1..(Len(of) + Len(rest))
      /\ \A r \in 1..Len(of) : servers[r] = of[r]
      /\ \A r \in DOMAIN servers : r \notin 1..Len(of) => \E k \in 1..Len(rest) : r = Len(of) + k /\ servers[r] = rest[k]
  <2>1. Joins(of \o rest, of, rest)
    BY Zenon, <1>3, <1>4, Joining
  <2>2. Joins(servers, of, rest)
    BY Zenon, <1>1, <2>1
  <2> QED BY Zenon, <2>2 DEF Joins
<1>6. DOMAIN rest = 1..Len(rest) /\ DOMAIN rules = 1..Len(of) /\ DOMAIN rules \subseteq DOMAIN servers
  BY SMTT(30), <1>3, <1>4, <1>5
<1>7. \A r \in DOMAIN rules : of[r] = RuleServer(ingEx, cfg, rules[r])
  BY Zenon DEF of
<1> QED BY ZenonT(60), <1>4, <1>5, <1>6, <1>7 DEF last, ServersMade

\* A server has the settings of its Ingress, and the certificate that covers it.
LEMMA ServerFields ==
  ASSUME NEW ingEx, IsIngress(ingEx.ing), NEW default,
         NEW s \in Range(generateNginxIngressCfg(ingEx, default).servers)
  PROVE  /\ s.settings = Restrict(createIngressConfig(default, ingEx.ing.ann), ServerSettings)
         /\ s.pem = PemOf(ingEx, s.name)
<1> DEFINE cfg == createIngressConfig(default, ingEx.ing.ann)
           servers == generateNginxIngressCfg(ingEx, default).servers
<1>1. PICK r \in DOMAIN servers : s = servers[r]
  BY Zenon DEF Range
<1> DEFINE rules == HTTPRules(ingEx.ing)
<1> HIDE DEF cfg, rules, servers
<1>2. s = RuleServer(ingEx, cfg, rules[r]) \/ s = DefaultBackendServer(ingEx, cfg)
  <2>1. ServersMade(ingEx, cfg, rules, servers)
    BY Zenon, Servers DEF cfg, rules, servers
  <2> QED BY Zenon, <1>1, <2>1 DEF ServersMade
<1>3. PICK host, locations : s = HTTPServer(ingEx, cfg, host, locations)
  BY Zenon, <1>2 DEF RuleServer, DefaultBackendServer
<1>4. /\ s.settings = Restrict(cfg, ServerSettings)
      /\ s.pem = PemOf(ingEx, host) /\ s.name = host
  BY Zenon, <1>3 DEF HTTPServer
<1> QED BY Zenon, <1>4 DEF cfg

\* Of some numbers, one is the least.
LEMMA LeastNatural ==
  ASSUME NEW S, S \subseteq Nat, S # {}
  PROVE  \E m \in S : \A k \in S : m <= k
<1>1. PICK m \in S : \A k \in S : ~(<<k, m>> \in OpToRel(<, Nat))
  BY Zenon, NatLessThanWellFounded, WFMin
<1>2. \A k \in S : ~(k < m)
  BY Zenon, <1>1 DEF OpToRel
<1> QED BY SMTT(30), <1>2

\* Of some positions of a list, one is the last.
LEMMA LastPosition ==
  ASSUME NEW n \in Nat, NEW S \in SUBSET (1..n), S # {}
  PROVE  Max(S) \in S
<1> DEFINE T == {n - i : i \in S}
<1>1. T \subseteq Nat /\ T # {}
  <2>1. \A i \in S : n - i \in Nat
    BY SMTT(30)
  <2> QED BY Zenon, <2>1
<1>2. PICK t \in T : \A u \in T : t <= u
  BY Zenon, <1>1, LeastNatural
<1>3. PICK i \in S : t = n - i
  OBVIOUS
<1>4. \A j \in S : i >= j
  BY SMTT(30), <1>2, <1>3
<1> QED BY Zenon, <1>4 DEF Max

-----------------------------------------------------------------------------
(* Upstreams and locations *)

\* Of the places with one upstream name, one is met first.
LEMMA FirstPlace ==
  ASSUME NEW ing, IsIngress(ing), NEW here \in Places(ing)
  PROVE  \E at \in Places(ing) :
           /\ UpstreamName(ing, BackendAt(ing, at)) = UpstreamName(ing, BackendAt(ing, here))
           /\ \A b \in Places(ing) : MetBefore(b, at) =>
                UpstreamName(ing, BackendAt(ing, b)) # UpstreamName(ing, BackendAt(ing, at))
<1> DEFINE Name(at) == UpstreamName(ing, BackendAt(ing, at))
           same == {at \in Places(ing) : Name(at) = Name(here)}
<1>1. \A at \in Places(ing) : at[1] \in Nat /\ at[2] \in Nat
  <2>1. ing.backend \in Seq(Range(ing.backend)) /\ HTTPRules(ing) \in Seq(Range(ing.rules))
    BY Zenon DEF IsIngress
  <2>2. \A r \in DOMAIN HTTPRules(ing) : r \in Nat /\ HTTPRules(ing)[r].paths \in Seq(Range(HTTPRules(ing)[r].paths))
    <3>1. \A r \in DOMAIN HTTPRules(ing) : r \in Nat /\ HTTPRules(ing)[r] \in Range(ing.rules)
      BY SMTT(30), <2>1
    <3> QED BY Zenon, <3>1 DEF IsIngress
  <2>3. DOMAIN ing.backend \subseteq Nat
    BY SMTT(30), <2>1
  <2>4. \A r \in DOMAIN HTTPRules(ing) : DOMAIN HTTPRules(ing)[r].paths \subseteq Nat
    BY SMTT(30), <2>2
  <2> QED BY SMTT(30), <2>2, <2>3, <2>4 DEF Places
<1> HIDE DEF Name
<1>2. PICK r \in {at[1] : at \in same} : \A at \in same : r <= at[1]
  <2> DEFINE rows == {at[1] : at \in same}
  <2>1. rows \subseteq Nat /\ rows # {}
    BY Zenon, <1>1
  <2> HIDE DEF rows
  <2>2. \E m \in rows : \A k \in rows : m <= k
    BY Zenon, <2>1, LeastNatural
  <2> QED BY Zenon, <2>2 DEF rows
<1>3. PICK at \in same : at[1] = r /\ \A b \in same : b[1] = r => at[2] <= b[2]
  <2> DEFINE columns == {at[2] : at \in {at \in same : at[1] = r}}
  <2>1. columns \subseteq Nat /\ columns # {}
    BY Zenon, <1>1, <1>2
  <2> HIDE DEF columns
  <2>2. PICK m \in columns : \A k \in columns : m <= k
    BY Zenon, <2>1, LeastNatural
  <2> QED BY Zenon, <2>2 DEF columns
<1>4. \A b \in same : ~MetBefore(b, at)
  BY SMTT(30), <1>1, <1>2, <1>3 DEF MetBefore
<1> QED BY Zenon, <1>3, <1>4 DEF Name

\* Each upstream is made of a backend of its Ingress, and each backend finds one of
\* its name.
LEMMA UpstreamsOfBackends ==
  ASSUME NEW ingEx, IsIngress(ingEx.ing)
  PROVE  /\ \A u \in Upstreams(ingEx) : \E b \in Backends(ingEx.ing) :
              u.name = UpstreamName(ingEx.ing, b) /\ u.servers = BackendServers(ingEx, b)
         /\ \A b \in Backends(ingEx.ing) : \E u \in Upstreams(ingEx) : u.name = UpstreamName(ingEx.ing, b)
<1> DEFINE ing == ingEx.ing
           Name(at) == UpstreamName(ing, BackendAt(ing, at))
           Makes(at) == \A b \in Places(ing) : MetBefore(b, at) => Name(b) # Name(at)
           Made(at) == createUpstream(ingEx, Name(at), BackendAt(ing, at))
<1>1. Upstreams(ingEx) = {Made(at) : at \in {at \in Places(ing) : Makes(at)}}
  BY Zenon DEF Upstreams
<1>2. \A at : Made(at).name = Name(at) /\ Made(at).servers = BackendServers(ingEx, BackendAt(ing, at))
  BY Zenon DEF createUpstream
<1>3. \A at \in Places(ing) : BackendAt(ing, at) \in Backends(ing)
  BY Zenon DEF Backends
<1>4. ASSUME NEW u \in Upstreams(ingEx)
      PROVE  \E b \in Backends(ing) : u.name = UpstreamName(ing, b) /\ u.servers = BackendServers(ingEx, b)
  <2>1. PICK at \in Places(ing) : u = Made(at)
    BY Zenon, <1>1
  <2> QED BY Zenon, <1>2, <1>3, <2>1
<1>5. ASSUME NEW b \in Backends(ing) PROVE \E u \in Upstreams(ingEx) : u.name = UpstreamName(ing, b)
  <2>1. PICK here \in Places(ing) : b = BackendAt(ing, here)
    BY Zenon DEF Backends
  <2>2. PICK at \in Places(ing) : Name(at) = Name(here) /\ Makes(at)
    BY Zenon, FirstPlace
  <2> HIDE DEF Made, Makes, Name
  <2>3. Made(at) \in Upstreams(ingEx)
    BY Zenon, <1>1, <2>2
  <2>4. Made(at).name = UpstreamName(ing, b)
    BY Zenon, <1>2, <2>1, <2>2 DEF Name
  <2> QED BY Zenon, <2>3, <2>4
<1> QED BY Zenon, <1>4, <1>5

PassesTo(location, name) == location.upstream.name = name

\* A location for a backend of the Ingress passes requests to the upstream of its name.
LEMMA LocationUpstream ==
  ASSUME NEW ingEx, IsIngress(ingEx.ing), NEW cfg, NEW path, NEW host, NEW backend,
         Used(host, backend) \in Backends(ingEx.ing)
  PROVE  PassesTo(createLocation(ingEx, cfg, path, host, backend),
                  UpstreamName(ingEx.ing, Used(host, backend)))
<1> DEFINE name == getNameForUpstream(ingEx.ing, host, backend.svc)
<1>1. UpstreamName(ingEx.ing, Used(host, backend)) = name
  BY Zenon DEF UpstreamName, Used
<1> HIDE DEF name
<1>2. \E u \in Upstreams(ingEx) : u.name = name
  BY Zenon, <1>1, UpstreamsOfBackends
<1>3. UpstreamNamed(ingEx, name).name = name
  BY Zenon, <1>2 DEF UpstreamNamed
<1>4. createLocation(ingEx, cfg, path, host, backend).upstream = UpstreamNamed(ingEx, name)
  BY Zenon DEF createLocation, name
<1> QED BY Zenon, <1>1, <1>3, <1>4 DEF PassesTo

\* How the locations of a rule are made of its own and that of the default backend.
LocationsMade(ingEx, rule, own, default, all) ==
  /\ own \in Seq(Range(own)) /\ DOMAIN own = DOMAIN rule.paths
  /\ default \in Seq(Range(default)) /\ DOMAIN default = DOMAIN ingEx.ing.backend
  /\ DOMAIN default \subseteq {1}
  /\ IF \E p \in DOMAIN own : own[p].path = Root
     THEN all = own
     ELSE all = own \o default /\ Joins(all, own, default)

\* What the server of a rule has for locations: one for each path, in their order,
\* and behind them that of the default backend unless a path takes the root.
LEMMA RuleLocationsAt ==
  ASSUME NEW ingEx, IsIngress(ingEx.ing), NEW cfg, NEW rule \in Range(ingEx.ing.rules)
  PROVE  LocationsMade(ingEx, rule, RuleLocations(ingEx, cfg, rule), DefaultLocation(ingEx, cfg),
                       Locations(ingEx, cfg, rule))
<1> DEFINE own == RuleLocations(ingEx, cfg, rule)
           default == DefaultLocation(ingEx, cfg)
<1> DEFINE backend == ingEx.ing.backend
<1>1. /\ rule.paths \in Seq(Range(rule.paths))
      /\ backend \in Seq(Range(backend)) /\ Len(backend) <= 1
  BY Zenon DEF IsIngress
<1>2. DOMAIN own = DOMAIN rule.paths /\ own \in Seq(Range(own))
  <2> DEFINE Made(p) == createLocation(ingEx, cfg, rule.paths[p].path, rule.host, rule.paths[p])
  <2>1. own = [p \in DOMAIN rule.paths |-> Made(p)]
    BY Zenon DEF RuleLocations
  <2> HIDE DEF Made
  <2>2. DOMAIN own = 1..Len(rule.paths) /\ DOMAIN own = DOMAIN rule.paths /\ Len(rule.paths) \in Nat
    BY SMTT(30), <1>1, <2>1
  <2> QED BY SMTT(30), <2>1, <2>2 DEF Range
<1>3. DOMAIN default = DOMAIN backend /\ default \in Seq(Range(default)) /\ DOMAIN default \subseteq {1}
  <2> DEFINE Made(i) == createLocation(ingEx, cfg, Root, emptyHost, backend[i])
  <2>1. default = [i \in DOMAIN backend |-> Made(i)]
    BY Zenon DEF DefaultLocation
  <2> HIDE DEF Made, backend
  <2>2. /\ DOMAIN default = 1..Len(backend) /\ DOMAIN default = DOMAIN backend
        /\ Len(backend) \in Nat /\ Len(backend) <= 1
    BY SMTT(30), <1>1, <2>1
  <2> QED BY SMTT(30), <2>1, <2>2 DEF Range
<1>4. Locations(ingEx, cfg, rule) = own \o (IF \E p \in DOMAIN own : own[p].path = Root THEN <<>> ELSE default)
  BY Zenon DEF Locations
<1>5. own \o <<>> = own
  BY SMTT(30), <1>2
<1>6. Joins(own \o default, own, default)
  BY Zenon, <1>2, <1>3, Joining
<1> QED BY Zenon, <1>2, <1>3, <1>4, <1>5, <1>6 DEF LocationsMade

\* The location at the place of a path is the path's.
LEMMA PathLocation ==
  ASSUME NEW ingEx, IsIngress(ingEx.ing), NEW cfg, NEW rule \in Range(ingEx.ing.rules),
         NEW p \in DOMAIN rule.paths
  PROVE  /\ p \in DOMAIN Locations(ingEx, cfg, rule)
         /\ Locations(ingEx, cfg, rule)[p]
              = createLocation(ingEx, cfg, rule.paths[p].path, rule.host, rule.paths[p])
<1> DEFINE own == RuleLocations(ingEx, cfg, rule)
           default == DefaultLocation(ingEx, cfg)
           all == Locations(ingEx, cfg, rule)
<1>1. own[p] = createLocation(ingEx, cfg, rule.paths[p].path, rule.host, rule.paths[p])
  BY Zenon DEF RuleLocations
<1> HIDE DEF own, default, all
<1>2. /\ own \in Seq(Range(own)) /\ p \in DOMAIN own
      /\ all = own \/ Joins(all, own, default)
  <2>1. LocationsMade(ingEx, rule, own, default, all)
    BY Zenon, RuleLocationsAt DEF own, default, all
  <2> QED BY Zenon, <2>1 DEF LocationsMade
<1>3. p \in DOMAIN all /\ all[p] = own[p]
  BY SMTT(30), <1>2 DEF Joins
<1> QED BY Zenon, <1>1, <1>3 DEF all

\* Unless a path takes the root, the default backend has a location for it.
LEMMA RootLocation ==
  ASSUME NEW ingEx, IsIngress(ingEx.ing), NEW cfg, NEW rule \in Range(ingEx.ing.rules),
         ~\E path \in Range(rule.paths) : pathOrDefault(path.path) = Root,
         NEW i \in DOMAIN ingEx.ing.backend
  PROVE  createLocation(ingEx, cfg, Root, emptyHost, ingEx.ing.backend[i]) \in Range(Locations(ingEx, cfg, rule))
<1> DEFINE own == RuleLocations(ingEx, cfg, rule)
           default == DefaultLocation(ingEx, cfg)
           all == Locations(ingEx, cfg, rule)
<1>1. default[i] = createLocation(ingEx, cfg, Root, emptyHost, ingEx.ing.backend[i])
  BY Zenon DEF DefaultLocation
<1>2. \A p \in DOMAIN rule.paths : own[p].path = pathOrDefault(rule.paths[p].path)
  BY Zenon DEF RuleLocations, createLocation
<1>3. \A p \in DOMAIN rule.paths : own[p].path # Root
  BY Zenon, <1>2 DEF Range
<1> HIDE DEF own, default, all
<1>4. /\ DOMAIN own = DOMAIN rule.paths
      /\ default \in Seq(Range(default)) /\ i \in DOMAIN default
      /\ (\E p \in DOMAIN own : own[p].path = Root) \/ Joins(all, own, default)
  <2>1. LocationsMade(ingEx, rule, own, default, all)
    BY Zenon, RuleLocationsAt DEF own, default, all
  <2> QED BY Zenon, <2>1 DEF LocationsMade
<1>5. Joins(all, own, default)
  BY Zenon, <1>3, <1>4
<1>6. i \in 1..Len(default)
  BY SMTT(30), <1>4
<1>7. Len(own) + i \in DOMAIN all /\ all[Len(own) + i] = default[i]
  BY Zenon, <1>5, <1>6 DEF Joins
<1> QED BY Zenon, <1>1, <1>7 DEF all, Range

\* The locations of a rule have different paths if its own do: that of the default
\* backend comes in only when no path takes the root.
LEMMA LocationsDiffer ==
  ASSUME NEW ingEx, IsIngress(ingEx.ing), NEW cfg, NEW rule \in Range(ingEx.ing.rules),
         OwnPathsDiffer(rule)
  PROVE  NoPathTwice(Locations(ingEx, cfg, rule))
<1> SUFFICES ASSUME NEW all, all = Locations(ingEx, cfg, rule),
                    NEW p \in DOMAIN all, NEW q \in DOMAIN all, all[p].path = all[q].path
             PROVE  p = q
  BY Zenon DEF NoPathTwice
<1> DEFINE own == RuleLocations(ingEx, cfg, rule)
           default == DefaultLocation(ingEx, cfg)
<1>1. \A k \in DOMAIN rule.paths : own[k].path = pathOrDefault(rule.paths[k].path)
  BY Zenon DEF RuleLocations, createLocation
<1>2. \A k \in DOMAIN ingEx.ing.backend : default[k].path = Root
  <2>1. pathOrDefault(Root) = Root
    BY Zenon DEF pathOrDefault
  <2> QED BY Zenon, <2>1 DEF DefaultLocation, createLocation
<1> HIDE DEF own, default
<1>3. /\ own \in Seq(Range(own)) /\ DOMAIN own = DOMAIN rule.paths
      /\ default \in Seq(Range(default)) /\ DOMAIN default = DOMAIN ingEx.ing.backend
      /\ DOMAIN default \subseteq {1}
      /\ \/ all = own
         \/ (\A k \in DOMAIN own : own[k].path # Root) /\ Joins(all, own, default)
  <2>1. LocationsMade(ingEx, rule, own, default, all)
    BY Zenon, RuleLocationsAt DEF own, default
  <2> QED BY Zenon, <2>1 DEF LocationsMade
<1>4. \A j, k \in DOMAIN own : own[j].path = own[k].path => j = k
  <2>1. DOMAIN own = DOMAIN rule.paths
    BY Zenon, <1>3
  <2> QED BY ZenonT(60), <1>1, <2>1 DEF OwnPathsDiffer
<1>5. CASE all = own
  BY Zenon, <1>4, <1>5
<1>6. CASE (\A k \in DOMAIN own : own[k].path # Root) /\ Joins(all, own, default)
  <2>1. DOMAIN own = 1..Len(own) /\ DOMAIN default = 1..Len(default)
    BY SMTT(30), <1>3
  <2>2. \A k \in DOMAIN all : \/ k \in DOMAIN own /\ all[k] = own[k] /\ all[k].path # Root
                              \/ k = Len(own) + 1 /\ all[k].path = Root
    <3>1. ASSUME NEW k \in DOMAIN all, k \notin DOMAIN own PROVE k = Len(own) + 1 /\ all[k].path = Root
      <4>1. PICK j \in DOMAIN default : k = Len(own) + j /\ all[k] = default[j]
        BY ZenonT(60), <1>6, <2>1, <3>1 DEF Joins
      <4>2. j = 1 /\ all[k].path = Root
        BY ZenonT(60), <1>2, <1>3, <4>1
      <4> QED BY Zenon, <4>1, <4>2
    <3>2. \A k \in DOMAIN own : all[k] = own[k] /\ all[k].path # Root
      BY Zenon, <1>6, <2>1 DEF Joins
    <3> QED BY Zenon, <3>1, <3>2
  <2> QED BY ZenonT(60), <1>4, <2>2
<1> QED BY Zenon, <1>3, <1>5, <1>6

\* A location is that of a path of a rule, or of the default backend.
MadeLocation(ingEx, cfg, l) ==
  \/ \E rule \in Range(HTTPRules(ingEx.ing)) : \E path \in Range(rule.paths) :
       l = createLocation(ingEx, cfg, path.path, rule.host, path)
  \/ \E backend \in Range(ingEx.ing.backend) : l = createLocation(ingEx, cfg, Root, emptyHost, backend)

\* The locations of a rule are so made.
LEMMA LocationsOfRule ==
  ASSUME NEW ingEx, IsIngress(ingEx.ing), NEW cfg, NEW rule \in Range(HTTPRules(ingEx.ing)),
         rule \in Range(ingEx.ing.rules), NEW l \in Range(Locations(ingEx, cfg, rule))
  PROVE  MadeLocation(ingEx, cfg, l)
<1> DEFINE own == RuleLocations(ingEx, cfg, rule)
           default == DefaultLocation(ingEx, cfg)
           all == Locations(ingEx, cfg, rule)
<1>1. \A p \in DOMAIN rule.paths : /\ rule.paths[p] \in Range(rule.paths)
                                   /\ own[p] = createLocation(ingEx, cfg, rule.paths[p].path, rule.host, rule.paths[p])
  BY Zenon DEF RuleLocations, Range
<1>2. \A i \in DOMAIN ingEx.ing.backend :
        /\ ingEx.ing.backend[i] \in Range(ingEx.ing.backend)
        /\ default[i] = createLocation(ingEx, cfg, Root, emptyHost, ingEx.ing.backend[i])
  BY Zenon DEF DefaultLocation, Range
<1>3. PICK k \in DOMAIN all : l = all[k]
  BY Zenon DEF Range
<1> HIDE DEF own, default, all
<1>4. /\ DOMAIN own = DOMAIN rule.paths /\ DOMAIN default = DOMAIN ingEx.ing.backend
      /\ DOMAIN own = 1..Len(own) /\ DOMAIN default = 1..Len(default)
      /\ all = own \/ Joins(all, own, default)
  <2>1. LocationsMade(ingEx, rule, own, default, all)
    BY Zenon, RuleLocationsAt DEF own, default, all
  <2>2. /\ DOMAIN own = DOMAIN rule.paths /\ DOMAIN default = DOMAIN ingEx.ing.backend
        /\ own \in Seq(Range(own)) /\ default \in Seq(Range(default))
        /\ all = own \/ Joins(all, own, default)
    BY Zenon, <2>1 DEF LocationsMade
  <2>3. DOMAIN own = 1..Len(own) /\ DOMAIN default = 1..Len(default)
    BY SMTT(30), <2>2
  <2> QED BY Zenon, <2>2, <2>3
<1>5. (\E p \in DOMAIN own : l = own[p]) \/ (\E i \in DOMAIN default : l = default[i])
  BY Zenon, <1>3, <1>4 DEF Joins
<1> QED BY Zenon, <1>1, <1>2, <1>4, <1>5 DEF MadeLocation

\* So are those of any server of an Ingress.
LEMMA LocationsOfServer ==
  ASSUME NEW ingEx, IsIngress(ingEx.ing), NEW default,
         NEW s \in Range(generateNginxIngressCfg(ingEx, default).servers), NEW l \in Range(s.locations)
  PROVE  MadeLocation(ingEx, createIngressConfig(default, ingEx.ing.ann), l)
<1> DEFINE cfg == createIngressConfig(default, ingEx.ing.ann)
           rules == HTTPRules(ingEx.ing)
           servers == generateNginxIngressCfg(ingEx, default).servers
<1>1. PICK r \in DOMAIN servers : s = servers[r]
  BY ZenonT(60) DEF Range
<1> HIDE DEF cfg, rules, servers
<1>2. ServersMade(ingEx, cfg, rules, servers)
  BY Zenon, Servers DEF cfg, rules, servers
<1>3. CASE r \in DOMAIN rules
  <2>1. rules[r] \in Range(ingEx.ing.rules) /\ rules[r] \in Range(rules)
    <3>1. rules \in Seq(Range(ingEx.ing.rules))
      BY Zenon DEF IsIngress, rules
    <3> QED BY SMTT(30), <1>3, <3>1 DEF Range
  <2>2. s.locations = Locations(ingEx, cfg, rules[r])
    <3>1. RuleServer(ingEx, cfg, rules[r]).locations = Locations(ingEx, cfg, rules[r])
      BY Zenon DEF RuleServer, HTTPServer
    <3> QED BY ZenonT(60), <1>1, <1>2, <1>3, <3>1 DEF ServersMade
  <2>3. MadeLocation(ingEx, cfg, l)
    BY Zenon, <2>1, <2>2, LocationsOfRule DEF rules
  <2> QED BY Zenon, <2>3 DEF cfg
<1>4. CASE r \notin DOMAIN rules
  <2>1. s.locations = DefaultLocation(ingEx, cfg)
    <3>1. DefaultBackendServer(ingEx, cfg).locations = DefaultLocation(ingEx, cfg)
      BY Zenon DEF DefaultBackendServer, HTTPServer
    <3> QED BY Zenon, <1>1, <1>2, <1>4, <3>1 DEF ServersMade
  <2>2. \E i \in DOMAIN ingEx.ing.backend : l = createLocation(ingEx, cfg, Root, emptyHost, ingEx.ing.backend[i])
    BY Zenon, <2>1 DEF DefaultLocation, Range
  <2> QED BY Zenon, <2>2 DEF MadeLocation, Range, cfg
<1> QED BY Zenon, <1>3, <1>4

-----------------------------------------------------------------------------
(* Certificates *)

\* The certificate of a host, where it has one, is of an entry of tls that covers
\* the host and whose secret is complete.
LEMMA PemIsOfSecret ==
  ASSUME NEW ingEx, IsIngress(ingEx.ing), NEW host, PemOf(ingEx, host) # NoPem
  PROVE  \E tls \in CompleteTLS(ingEx) :
           Covers(tls, host) /\ PemOf(ingEx, host) = KeyPem(<<ingEx.ing.ns, tls.secret>>)
<1> DEFINE all == ingEx.ing.tls
           covering == {i \in DOMAIN all : Complete(ingEx, all[i]) /\ Covers(all[i], host)}
           i == Max(covering)
<1>1. covering # {} /\ PemOf(ingEx, host) = PemName(ingEx.ing, all[i].secret)
  BY Zenon DEF PemOf
<1>2. Len(all) \in Nat /\ covering \in SUBSET (1..Len(all))
  BY SMTT(30) DEF IsIngress
<1>3. i \in covering
  BY Zenon, <1>1, <1>2, LastPosition
<1>4. all[i] \in CompleteTLS(ingEx) /\ Covers(all[i], host)
  BY Zenon, <1>3 DEF CompleteTLS, Range
<1>5. PemName(ingEx.ing, all[i].secret) = KeyPem(<<ingEx.ing.ns, all[i].secret>>)
  BY Zenon DEF PemName, KeyPem
<1> QED BY Zenon, <1>1, <1>4, <1>5

\* The files AddOrUpdateCertAndKey writes are those of the secrets of the Ingress,
\* with their contents.
LEMMA PemsOfSecrets ==
  ASSUME NEW ingEx
  PROVE  /\ \A key \in SecretKeys(ingEx) : KeyPem(key) \in DOMAIN Pems(ingEx)
         /\ \A pem \in DOMAIN Pems(ingEx) : \E key \in SecretKeys(ingEx) :
              KeyPem(key) = pem /\ Pems(ingEx)[pem] = ingEx.secrets[key[2]]
<1> DEFINE Of(t) == PemName(ingEx.ing, t.secret)
           Key(t) == <<ingEx.ing.ns, t.secret>>
<1>1. \A t : KeyPem(Key(t)) = Of(t) /\ Key(t)[2] = t.secret
  BY Zenon DEF PemName, KeyPem
<1>2. SecretKeys(ingEx) = {Key(t) : t \in CompleteTLS(ingEx)}
  BY Zenon DEF SecretKeys
<1>3. DOMAIN Pems(ingEx) = {Of(t) : t \in CompleteTLS(ingEx)}
  BY Zenon DEF Pems
<1>4. ASSUME NEW pem \in DOMAIN Pems(ingEx)
      PROVE  \E t \in CompleteTLS(ingEx) : Of(t) = pem /\ Pems(ingEx)[pem] = ingEx.secrets[t.secret]
  <2> DEFINE tls == CHOOSE t \in CompleteTLS(ingEx) : Of(t) = pem
  <2>1. tls \in CompleteTLS(ingEx) /\ Of(tls) = pem
    BY Zenon, <1>3
  <2>2. Pems(ingEx)[pem] = ingEx.secrets[tls.secret]
    BY Zenon, <1>3 DEF Pems
  <2> QED BY Zenon, <2>1, <2>2
<1>5. \A key \in SecretKeys(ingEx) : KeyPem(key) \in DOMAIN Pems(ingEx)
  BY Zenon, <1>1, <1>2, <1>3
<1>6. ASSUME NEW pem \in DOMAIN Pems(ingEx)
      PROVE  \E key \in SecretKeys(ingEx) :
               KeyPem(key) = pem /\ Pems(ingEx)[pem] = ingEx.secrets[key[2]]
  <2>1. PICK t \in CompleteTLS(ingEx) : Of(t) = pem /\ Pems(ingEx)[pem] = ingEx.secrets[t.secret]
    BY Zenon, <1>4
  <2>2. Key(t) \in SecretKeys(ingEx)
    BY Zenon, <1>2
  <2> HIDE DEF Key, Of
  <2>3. KeyPem(Key(t)) = pem /\ Pems(ingEx)[pem] = ingEx.secrets[Key(t)[2]]
    BY Zenon, <1>1, <2>1
  <2> QED BY Zenon, <2>2, <2>3
<1> QED BY Zenon, <1>5, <1>6

\* What AddOrUpdateIngress is at.
LEMMA OpFields ==
  ASSUME NEW name, NEW ingEx
  PROVE  \A o \in {[name |-> name, of |-> ingEx]} : o.name = name /\ o.of = ingEx
OBVIOUS

\* Every operation leaves each file as it was made, from what it was made of.
LEMMA FilesAsMadeStep == FilesAsMade /\ [Next]_vars => FilesAsMade'
<1> SUFFICES ASSUME FilesAsMade, [Next]_vars PROVE FilesAsMade'
  OBVIOUS
<1>1. ASSUME NEW name \in Names, NEW ingEx \in IngressExs(name), updateCertificates(name, ingEx)
      PROVE  FilesAsMade'
  <2>1. op' = {[name |-> name, of |-> ingEx]} /\ UNCHANGED <<config, asked, mainCfg, confd, dhparam, given>>
    BY Zenon, <1>1 DEF updateCertificates, contexts
  <2>2. \A o \in op' : o.name = name /\ o.of = ingEx
    <3>1. \A o \in {[name |-> name, of |-> ingEx]} : o.name = name /\ o.of = ingEx
      BY Zenon, OpFields
    <3> QED BY Zenon, <2>1, <3>1
  <2> QED BY Zenon, <2>1, <2>2 DEF FilesAsMade
<1>2. ASSUME NEW o \in op, AddOrUpdateIngress(o)
      PROVE  FilesAsMade'
  <2> DEFINE entry == [of |-> o.of, context |-> asked]
  <2>1. /\ UNCHANGED <<config, asked, mainCfg, dhparam>> /\ op' = {}
        /\ given' = Over([n \in {o.name} |-> entry], given)
        /\ confd' = Over([n \in {o.name} |-> generateNginxIngressCfg(o.of, asked)], confd)
    BY ZenonT(60), <1>2 DEF AddOrUpdateIngress, WriteConfiguration, FilesAsMade
  <2>2. /\ DOMAIN given' = DOMAIN given \cup {o.name} /\ given'[o.name] = entry
        /\ \A n \in DOMAIN given \ {o.name} : given'[n] = given[n]
    BY Zenon, <2>1 DEF Over
  <2>3. entry.of = o.of /\ entry.context = asked
    OBVIOUS
  <2>4. confd' = Generated(given')
    BY Zenon, <2>1, <2>2, <2>3 DEF FilesAsMade, Generated, Over
  <2>5. o.name \in Names /\ o.of \in IngressExs(o.name)
    BY Zenon, <1>2 DEF FilesAsMade
  <2> QED BY ZenonT(60), <2>1, <2>2, <2>3, <2>4, <2>5 DEF FilesAsMade
<1>3. ASSUME NEW name \in Names, DeleteConfiguration(name)
      PROVE  FilesAsMade'
  <2>1. /\ UNCHANGED <<config, asked, mainCfg, dhparam, op>>
        /\ given' = [n \in DOMAIN given \ {name} |-> given[n]]
        /\ confd' = [n \in DOMAIN confd \ {name} |-> confd[n]]
    BY Zenon, <1>3 DEF DeleteConfiguration, Restrict, contexts
  <2>2. confd' = Generated(given')
    BY Zenon, <2>1 DEF FilesAsMade, Generated
  <2>3. \A n \in DOMAIN given' : n \in DOMAIN given /\ given'[n] = given[n]
    BY Zenon, <2>1
  <2> QED BY Zenon, <2>1, <2>2, <2>3 DEF FilesAsMade
<1>4. ASSUME NEW context \in Contexts, context.dhparam => dhparam # {}, UpdateMainConfigHTTPContext(context)
      PROVE  FilesAsMade'
  <2>1. /\ config' = asked' /\ mainCfg'.dhparam = context.dhparam
        /\ UNCHANGED <<confd, dhparam, given, op>>
    BY Zenon, <1>4 DEF UpdateMainConfigHTTPContext, files
  <2> QED BY Zenon, <1>4, <2>1 DEF FilesAsMade
<1>5. ASSUME NEW content \in DHParams, AddOrUpdateDHParam(content)
      PROVE  FilesAsMade'
  BY Zenon, <1>5 DEF AddOrUpdateDHParam, contexts, FilesAsMade
<1>6. CASE Follow \/ UNCHANGED vars
  BY Zenon, <1>6 DEF Follow, vars, contexts, files, FilesAsMade
<1> QED BY Zenon, <1>1, <1>2, <1>3, <1>4, <1>5, <1>6 DEF Next

\* After a reload NGINX has been told, or there was an error.
LEMMA ReloadTells ==
  ASSUME Reload
  PROVE  running' = running /\ (reloadErr' = "" => hup')
BY Zenon DEF Reload

\* What NGINX loads was made of what was given, and is the newest.
LEMMA RunsWhatWasMadeStep == RunsWhatWasMade /\ FilesAsMade /\ [Next]_vars => RunsWhatWasMade'
<1> SUFFICES ASSUME RunsWhatWasMade, FilesAsMade, [Next]_vars PROVE RunsWhatWasMade'
  OBVIOUS
<1>1. ASSUME NEW name \in Names, NEW ingEx \in IngressExs(name), updateCertificates(name, ingEx)
      PROVE  RunsWhatWasMade'
  BY Zenon, <1>1 DEF updateCertificates, nginx, RunsWhatWasMade
<1>2. ASSUME running' = running, reloadErr' = "" => hup'
      PROVE  RunsWhatWasMade'
  BY Zenon, <1>2 DEF RunsWhatWasMade
<1>3. ASSUME NEW o \in op, AddOrUpdateIngress(o)
      PROVE  RunsWhatWasMade'
  BY Zenon, <1>2, <1>3, ReloadTells DEF AddOrUpdateIngress, WriteConfiguration
<1>4. ASSUME NEW name \in Names, DeleteConfiguration(name)
      PROVE  RunsWhatWasMade'
  BY Zenon, <1>2, <1>4, ReloadTells DEF DeleteConfiguration
<1>5. ASSUME UNCHANGED <<op, nginx, given, latest>>
      PROVE  RunsWhatWasMade'
  BY Zenon, <1>5 DEF nginx, RunsWhatWasMade
<1>6. CASE Follow
  <2>1. CASE /\ HTTPAccepts(mainCfg, confd, ssl, dhparam)
             /\ running' = [confd |-> confd, ssl |-> ssl, given |-> given, latest |-> latest]
    <3>1. running'.confd = confd /\ running'.given = given /\ running'.latest = latest
      BY Zenon, <2>1
    <3>2. UNCHANGED <<given, latest>>
      BY Zenon, <1>6 DEF Follow
    <3>3. \A s \in ServersOf(confd) : NoPathTwice(s.locations)
      BY Zenon, <2>1 DEF HTTPAccepts, ServerFits, NoPathTwice
    <3> QED BY Zenon, <3>1, <3>2, <3>3 DEF RunsWhatWasMade, FilesAsMade
  <2>2. CASE running' = running /\ reloadErr' = "load"
    BY Zenon, <1>2, <2>2
  <2> QED BY Zenon, <1>6, <2>1, <2>2 DEF Follow
<1> QED
  BY Zenon, <1>1, <1>3, <1>4, <1>5, <1>6 DEF Next, UpdateMainConfigHTTPContext, AddOrUpdateDHParam, vars

\* The secrets seen, with those of an Ingress.
Seen(ingEx, secrets) == Over([k \in SecretKeys(ingEx) |-> ingEx.secrets[k[2]]], secrets)

\* Writing the certificates of an Ingress leaves each file with what was seen last of
\* a secret it is for.
LEMMA CertificatesWritten ==
  ASSUME NEW gs, NEW secrets, NEW pems, Written(gs, secrets, pems), NEW ingEx
  PROVE  /\ Written(gs, Seen(ingEx, secrets), Over(Pems(ingEx), pems))
         /\ SecretKeys(ingEx) \subseteq DOMAIN Seen(ingEx, secrets)
<1> DEFINE keys == SecretKeys(ingEx)
           written == Pems(ingEx)
           newSecrets == Seen(ingEx, secrets)
           newPems == Over(Pems(ingEx), pems)
<1>1. /\ \A key \in keys : KeyPem(key) \in DOMAIN written
      /\ \A pem \in DOMAIN written : \E key \in keys :
           KeyPem(key) = pem /\ written[pem] = ingEx.secrets[key[2]]
  BY Zenon, PemsOfSecrets
<1> HIDE DEF keys, written
<1>2. /\ DOMAIN newSecrets = keys \cup DOMAIN secrets
      /\ \A k \in keys : newSecrets[k] = ingEx.secrets[k[2]]
      /\ \A k \in DOMAIN secrets \ keys : newSecrets[k] = secrets[k]
  <2>1. newSecrets = Over([k \in keys |-> ingEx.secrets[k[2]]], secrets)
    BY Zenon DEF keys, Seen
  <2> HIDE DEF newSecrets
  <2> QED BY Zenon, <2>1 DEF Over
<1>3. /\ DOMAIN newPems = DOMAIN written \cup DOMAIN pems
      /\ \A pem \in DOMAIN written : newPems[pem] = written[pem]
      /\ \A pem \in DOMAIN pems \ DOMAIN written : newPems[pem] = pems[pem]
  <2>1. newPems = Over(written, pems)
    BY Zenon DEF written
  <2> HIDE DEF newPems
  <2> QED BY Zenon, <2>1 DEF Over
<1> HIDE DEF newSecrets, newPems
<1>4. \A n \in DOMAIN gs : SecretKeys(gs[n].of) \subseteq DOMAIN newSecrets
  BY Zenon, <1>2 DEF Written
<1>5. \A k \in DOMAIN newSecrets : KeyPem(k) \in DOMAIN newPems
  BY Zenon, <1>1, <1>2, <1>3 DEF Written
<1>6. ASSUME NEW pem \in DOMAIN newPems
      PROVE  \E k \in DOMAIN newSecrets : KeyPem(k) = pem /\ newPems[pem] = newSecrets[k]
  <2>1. CASE pem \in DOMAIN written
    <3>1. PICK key \in keys : KeyPem(key) = pem /\ written[pem] = ingEx.secrets[key[2]]
      BY Zenon, <1>1, <2>1
    <3>2. key \in DOMAIN newSecrets /\ newSecrets[key] = ingEx.secrets[key[2]]
      BY Zenon, <1>2, <3>1
    <3>3. newPems[pem] = written[pem]
      BY Zenon, <1>3, <2>1
    <3> QED BY Zenon, <3>1, <3>2, <3>3
  <2>2. CASE pem \notin DOMAIN written
    <3>1. PICK k \in DOMAIN secrets : KeyPem(k) = pem /\ pems[pem] = secrets[k]
      BY Zenon, <1>3, <2>2 DEF Written
    <3>2. k \notin keys
      BY Zenon, <1>1, <2>2, <3>1
    <3> QED BY Zenon, <1>2, <1>3, <2>2, <3>1, <3>2
  <2> QED BY Zenon, <2>1, <2>2
<1>7. Written(gs, newSecrets, newPems) /\ keys \subseteq DOMAIN newSecrets
  BY Zenon, <1>2, <1>4, <1>5, <1>6 DEF Written
<1> QED BY Zenon, <1>7 DEF keys, newSecrets, newPems

\* Every operation leaves the secrets written, on disk and in what NGINX runs.
LEMMA SecretsWrittenStep == SecretsWritten /\ [Next]_vars => SecretsWritten'
<1> SUFFICES ASSUME SecretsWritten, [Next]_vars PROVE SecretsWritten'
  OBVIOUS
<1>1. ASSUME NEW name \in Names, NEW ingEx \in IngressExs(name), updateCertificates(name, ingEx)
      PROVE  SecretsWritten'
  <2>1. /\ ssl' = Over(Pems(ingEx), ssl)
        /\ latest' = Seen(ingEx, latest)
        /\ op' = {[name |-> name, of |-> ingEx]}
        /\ UNCHANGED <<given, running>>
    BY Zenon, <1>1 DEF updateCertificates, nginx, Seen
  <2>2. Written(given, latest', ssl') /\ SecretKeys(ingEx) \subseteq DOMAIN latest'
    BY Zenon, <2>1, CertificatesWritten DEF SecretsWritten
  <2>3. \A o \in op' : o.of = ingEx
    <3>1. \A o \in {[name |-> name, of |-> ingEx]} : o.name = name /\ o.of = ingEx
      BY Zenon, OpFields
    <3> QED BY Zenon, <2>1, <3>1
  <2> QED BY Zenon, <2>1, <2>2, <2>3 DEF SecretsWritten
<1>2. ASSUME NEW o \in op, AddOrUpdateIngress(o)
      PROVE  SecretsWritten'
  <2> DEFINE entry == [of |-> o.of, context |-> asked]
  <2>1. /\ given' = Over([n \in {o.name} |-> entry], given)
        /\ op' = {} /\ UNCHANGED <<ssl, latest, running>>
    BY Zenon, <1>2, ReloadTells DEF AddOrUpdateIngress, WriteConfiguration
  <2>2. \A n \in DOMAIN given' : n \in DOMAIN given \cup {o.name} /\ given'[n] = IF n = o.name THEN entry ELSE given[n]
    BY Zenon, <2>1 DEF Over
  <2>3. entry.of = o.of
    OBVIOUS
  <2>4. \A n \in DOMAIN given' : SecretKeys(given'[n].of) \subseteq DOMAIN latest
    BY Zenon, <1>2, <2>2, <2>3 DEF SecretsWritten, Written
  <2> QED BY Zenon, <2>1, <2>4 DEF SecretsWritten, Written
<1>3. ASSUME NEW name \in Names, DeleteConfiguration(name)
      PROVE  SecretsWritten'
  <2>1. /\ given' = [n \in DOMAIN given \ {name} |-> given[n]]
        /\ UNCHANGED <<ssl, latest, op, running>>
    BY Zenon, <1>3, ReloadTells DEF DeleteConfiguration, Restrict
  <2>2. \A n \in DOMAIN given' : n \in DOMAIN given /\ given'[n] = given[n]
    BY Zenon, <2>1
  <2> QED BY Zenon, <2>1, <2>2 DEF SecretsWritten, Written
<1>4. ASSUME UNCHANGED <<given, ssl, latest, op, running>> PROVE SecretsWritten'
  BY Zenon, <1>4 DEF SecretsWritten
<1>5. CASE Follow
  <2>1. CASE running' = [confd |-> confd, ssl |-> ssl, given |-> given, latest |-> latest]
    <3>1. running'.ssl = ssl /\ running'.given = given /\ running'.latest = latest
      BY Zenon, <2>1
    <3> QED BY Zenon, <1>5, <3>1 DEF Follow, files, SecretsWritten
  <2>2. CASE running' = running
    BY Zenon, <1>4, <1>5, <2>2 DEF Follow, files
  <2> QED BY Zenon, <1>5, <2>1, <2>2 DEF Follow
<1> QED
  BY Zenon, <1>1, <1>2, <1>3, <1>4, <1>5
  DEF Next, UpdateMainConfigHTTPContext, AddOrUpdateDHParam, vars, files, nginx

\* Whatever is added, updated and deleted, whatever contexts are set in between, and
\* however reloads fail: every file is as it was made of the context asked for last,
\* NGINX runs something that was accepted, and what was given last once a reload
\* succeeded, and every certificate file has what was seen last of its secret.
THEOREM HTTPInvariance == Spec => [](FilesAsMade /\ RunsWhatWasMade /\ SecretsWritten)
<1> DEFINE HTTPInv == FilesAsMade /\ RunsWhatWasMade /\ SecretsWritten
<1>1. Init => HTTPInv
  <2> SUFFICES ASSUME Init PROVE HTTPInv
    OBVIOUS
  <2>1. DOMAIN Empty = {} /\ Generated(Empty) = Empty
    BY Zenon DEF Empty, Generated
  <2>2. FilesAsMade
    BY Zenon, <2>1 DEF Init, FilesAsMade
  <2>3. /\ running.confd = Empty /\ running.ssl = Empty
        /\ running.given = Empty /\ running.latest = Empty
    BY Zenon DEF Init
  <2>4. RunsWhatWasMade
    BY Zenon, <2>1, <2>3 DEF RunsWhatWasMade, ServersOf, Init
  <2>5. SecretsWritten
    BY Zenon, <2>1, <2>3 DEF SecretsWritten, Written, Init
  <2> QED BY Zenon, <2>2, <2>4, <2>5
<1>2. HTTPInv /\ [Next]_vars => HTTPInv'
  BY Zenon, FilesAsMadeStep, RunsWhatWasMadeStep, SecretsWrittenStep
<1> QED BY <1>1, <1>2, PTL DEF Spec

\* The annotations of one Ingress leave the settings of the others alone, in servers
\* and in locations (createIngressConfig works on a copy).
THEOREM AnnotationsStayApart == Spec => []SettingsStayApart
<1>1. ASSUME FilesAsMade, NEW n \in DOMAIN given, NEW s \in Range(confd[n].servers),
             NEW settings \in {s.settings} \cup {l.settings : l \in Range(s.locations)},
             NEW setting \in DOMAIN settings \ DOMAIN given[n].of.ing.ann
      PROVE  settings[setting] = given[n].context[setting]
  <2> DEFINE ingEx == given[n].of
             default == given[n].context
             made == createIngressConfig(default, ingEx.ing.ann)
  <2>1. /\ IsIngress(ingEx.ing)
        /\ s \in Range(generateNginxIngressCfg(ingEx, default).servers)
    BY Zenon, <1>1, IngressesAssumption DEF FilesAsMade, Generated
  <2>2. settings \in {Restrict(made, ServerSettings), Restrict(made, LocationSettings)}
    <3>1. s.settings = Restrict(made, ServerSettings)
      BY ZenonT(60), <2>1, ServerFields
    <3>2. \A l \in Range(s.locations) : MadeLocation(ingEx, made, l)
      BY ZenonT(60), <2>1, LocationsOfServer
    <3> HIDE DEF made
    <3>3. ASSUME NEW l \in Range(s.locations) PROVE l.settings = Restrict(made, LocationSettings)
      <4>1. ASSUME NEW path, NEW host, NEW backend
            PROVE  createLocation(ingEx, made, path, host, backend).settings = Restrict(made, LocationSettings)
        BY Zenon DEF createLocation
      <4>2. CASE \E rule \in Range(HTTPRules(ingEx.ing)) : \E path \in Range(rule.paths) :
                   l = createLocation(ingEx, made, path.path, rule.host, path)
        <5>1. PICK rule, path : l = createLocation(ingEx, made, path.path, rule.host, path)
          BY Zenon, <4>2
        <5>2. createLocation(ingEx, made, path.path, rule.host, path).settings = Restrict(made, LocationSettings)
          BY Zenon, <4>1
        <5> QED BY Zenon, <5>1, <5>2
      <4>3. CASE \E backend \in Range(ingEx.ing.backend) : l = createLocation(ingEx, made, Root, emptyHost, backend)
        BY Zenon, <4>1, <4>3
      <4> QED BY Zenon, <3>2, <4>2, <4>3 DEF MadeLocation
    <3> QED BY Zenon, <1>1, <3>1, <3>3
  <2>3. setting \in HTTPSettings /\ settings[setting] = made[setting]
    <3>1. setting \in ServerSettings \cup LocationSettings /\ settings[setting] = made[setting]
      BY Zenon, <1>1, <2>2 DEF Restrict
    <3> QED BY Zenon, <3>1 DEF ServerSettings, LocationSettings, HTTPSettings, TextSettings
  <2>4. made[setting] = default[setting]
    BY Zenon, <1>1, <2>3 DEF createIngressConfig
  <2> QED BY Zenon, <2>3, <2>4
<1>2. FilesAsMade => SettingsStayApart
  BY ZenonT(60), <1>1 DEF SettingsStayApart
<1> QED BY <1>2, HTTPInvariance, PTL

\* The hsts annotations are taken together or not at all: one that does not
\* parse leaves all three settings as the context has them.
THEOREM HSTSStaysTogether == Spec => []HSTSTogether
<1>1. ASSUME FilesAsMade, NEW n \in DOMAIN given, NEW s \in Range(confd[n].servers),
             NEW bad \in HSTSSettings \cap DOMAIN given[n].of.ing.ann,
             ~WellFormed(bad, given[n].of.ing.ann[bad]), NEW setting \in HSTSSettings
      PROVE  s.settings[setting] = given[n].context[setting]
  <2> DEFINE ingEx == given[n].of
             default == given[n].context
             made == createIngressConfig(default, ingEx.ing.ann)
  <2>1. /\ n \in Names /\ ingEx \in IngressExs(n)
        /\ s \in Range(generateNginxIngressCfg(ingEx, default).servers)
    BY Zenon, <1>1 DEF FilesAsMade, Generated
  <2>2. s.settings = Restrict(made, ServerSettings)
    BY ZenonT(60), <2>1, ServerFields, IngressesAssumption
  <2>3. setting \in HTTPSettings /\ setting \in ServerSettings
    BY Zenon, <1>1 DEF HSTSSettings, HTTPSettings, ServerSettings, LocationSettings
  <2>4. s.settings[setting] = made[setting]
    BY Zenon, <2>2, <2>3 DEF Restrict
  <2>5. ~HSTSApplies(ingEx.ing.ann)
    BY Zenon, <1>1 DEF HSTSApplies
  <2>6. made[setting] = default[setting]
    BY Zenon, <1>1, <2>3, <2>5 DEF createIngressConfig
  <2> QED BY Zenon, <2>4, <2>6
<1>2. FilesAsMade => HSTSTogether
  BY Zenon, <1>1 DEF HSTSTogether
<1> QED BY <1>2, HTTPInvariance, PTL

\* A server NGINX runs with a certificate has that of its own Ingress' secret, in
\* the newest contents any Ingress came with when it was loaded, and once a reload
\* succeeded NGINX has loaded the newest (updateCertificates, Reload).
THEOREM CertificatesStayOwn == Spec => []CertificatesAreOwn
<1>1. ASSUME RunsWhatWasMade, SecretsWritten, SecretsTellApart(running.latest),
             NEW n \in DOMAIN running.given,
             NEW s \in Range(running.confd[n].servers), s.pem # NoPem
      PROVE  \E tls \in CompleteTLS(running.given[n].of) :
               /\ Covers(tls, s.name)
               /\ running.ssl[s.pem] = running.latest[<<running.given[n].of.ing.ns, tls.secret>>]
  <2> DEFINE ingEx == running.given[n].of
             secrets == running.latest
  <2>1. /\ IsIngress(ingEx.ing)
        /\ s \in Range(generateNginxIngressCfg(ingEx, running.given[n].context).servers)
    BY Zenon, <1>1, IngressesAssumption DEF RunsWhatWasMade, Generated
  <2> HIDE DEF ingEx
  <2>2. s.pem = PemOf(ingEx, s.name)
    BY Zenon, <2>1, ServerFields
  <2>3. PICK tls \in CompleteTLS(ingEx) :
          Covers(tls, s.name) /\ s.pem = KeyPem(<<ingEx.ing.ns, tls.secret>>)
    <3>1. PemOf(ingEx, s.name) # NoPem
      BY Zenon, <1>1, <2>2
    <3>2. \E tls \in CompleteTLS(ingEx) :
            Covers(tls, s.name) /\ PemOf(ingEx, s.name) = KeyPem(<<ingEx.ing.ns, tls.secret>>)
      BY Zenon, <2>1, <3>1, PemIsOfSecret
    <3> QED BY Zenon, <2>2, <3>2
  <2> DEFINE key == <<ingEx.ing.ns, tls.secret>>
  <2>4. key \in DOMAIN secrets
    BY Zenon, <1>1 DEF SecretsWritten, Written, SecretKeys, ingEx
  <2> HIDE DEF key
  <2>5. KeyPem(key) \in DOMAIN running.ssl
    BY Zenon, <1>1, <2>4 DEF SecretsWritten, Written
  <2>6. PICK k \in DOMAIN secrets : KeyPem(k) = KeyPem(key) /\ running.ssl[KeyPem(key)] = secrets[k]
    BY Zenon, <1>1, <2>5 DEF SecretsWritten, Written
  <2>7. k = key
    BY Zenon, <1>1, <2>4, <2>6 DEF SecretsTellApart, KeyPem
  <2> QED BY Zenon, <2>3, <2>6, <2>7 DEF ingEx, key
<1>2. RunsWhatWasMade /\ SecretsWritten => CertificatesAreOwn
  BY Zenon, <1>1 DEF CertificatesAreOwn, RunsWhatWasMade
<1> QED BY <1>2, HTTPInvariance, PTL

-----------------------------------------------------------------------------
(* What the configuration does *)

\* With names that tell upstreams apart, a location that names the upstream of a
\* backend passes requests to the servers of that backend and to no others.
LEMMA WhereRequestsGo ==
  ASSUME RunsWhatWasMade, NamesTellApart(running.given), NEW n \in DOMAIN running.given,
         NEW b \in Backends(running.given[n].of.ing), NEW location,
         location.upstream.name = UpstreamName(running.given[n].of.ing, b)
  PROVE  ProxyPass(location) = BackendServers(running.given[n].of, b)
<1> DEFINE gs == running.given
           name == location.upstream.name
<1>1. /\ DOMAIN running.confd = DOMAIN gs
      /\ \A m \in DOMAIN gs : running.confd[m].upstreams = Upstreams(gs[m].of) /\ IsIngress(gs[m].of.ing)
  <2>1. \A m \in DOMAIN gs : IsIngress(gs[m].of.ing)
    BY Zenon, IngressesAssumption DEF RunsWhatWasMade
  <2>2. /\ DOMAIN running.confd = DOMAIN gs
        /\ \A m \in DOMAIN gs : running.confd[m] = generateNginxIngressCfg(gs[m].of, gs[m].context)
    BY Zenon DEF RunsWhatWasMade, Generated
  <2>3. \A ingEx, default : generateNginxIngressCfg(ingEx, default).upstreams = Upstreams(ingEx)
    BY ZenonT(60) DEF generateNginxIngressCfg
  <2>4. ASSUME NEW m \in DOMAIN gs PROVE running.confd[m].upstreams = Upstreams(gs[m].of)
    <3>1. running.confd[m] = generateNginxIngressCfg(gs[m].of, gs[m].context)
      BY Zenon, <2>2
    <3> QED BY Zenon, <2>3, <3>1
  <2> QED BY ZenonT(60), <2>1, <2>2, <2>4
<1>2. ASSUME NEW m \in DOMAIN gs, NEW u \in Upstreams(gs[m].of), u.name = name
      PROVE  u.servers = BackendServers(gs[n].of, b)
  <2>1. PICK c \in Backends(gs[m].of.ing) :
          u.name = UpstreamName(gs[m].of.ing, c) /\ u.servers = BackendServers(gs[m].of, c)
    BY Zenon, <1>1, UpstreamsOfBackends
  <2>2. Joined(gs[m], c) = Joined(gs[n], b)
    BY Zenon, <1>2, <2>1 DEF Joined, UpstreamName, getNameForUpstream
  <2>3. m = n /\ c = b
    BY ZenonT(60), <2>2 DEF NamesTellApart
  <2> QED BY Zenon, <2>1, <2>3
<1>3. PICK u \in Upstreams(gs[n].of) : u.name = name
  <2>1. IsIngress(gs[n].of.ing) /\ b \in Backends(gs[n].of.ing) /\ name = UpstreamName(gs[n].of.ing, b)
    BY Zenon, <1>1
  <2> HIDE DEF gs, name
  <2>2. \E u \in Upstreams(gs[n].of) : u.name = UpstreamName(gs[n].of.ing, b)
    BY Zenon, <2>1, UpstreamsOfBackends
  <2> QED BY Zenon, <2>1, <2>2
<1>4. ASSUME NEW x \in ProxyPass(location) PROVE x \in BackendServers(gs[n].of, b)
  <2>1. PICK m \in DOMAIN running.confd :
          x \in UNION {v.servers : v \in {v \in running.confd[m].upstreams : v.name = name}}
    BY Zenon DEF ProxyPass
  <2>2. PICK v \in running.confd[m].upstreams : v.name = name /\ x \in v.servers
    BY Zenon, <2>1
  <2> QED BY ZenonT(60), <1>1, <1>2, <2>2
<1>5. \A x \in BackendServers(gs[n].of, b) : x \in ProxyPass(location)
  <2>1. u.servers = BackendServers(gs[n].of, b)
    BY Zenon, <1>2, <1>3
  <2>2. u \in {v \in running.confd[n].upstreams : v.name = location.upstream.name} /\ n \in DOMAIN running.confd
    BY Zenon, <1>1, <1>3
  <2>3. \A x \in u.servers :
          x \in UNION {v.servers : v \in {v \in running.confd[n].upstreams : v.name = location.upstream.name}}
    BY Zenon, <2>2
  <2>4. \A x \in u.servers : x \in ProxyPass(location)
    BY Zenon, <2>2, <2>3 DEF ProxyPass
  <2> QED BY Zenon, <2>1, <2>4
<1> QED BY Zenon, <1>4, <1>5

\* The default backend and the paths of rules with paths are backends of the Ingress,
\* and their servers those of the service and port they name.
LEMMA BackendsMet ==
  ASSUME NEW ingEx, IsIngress(ingEx.ing)
  PROVE  /\ \A i \in DOMAIN ingEx.ing.backend : Used(emptyHost, ingEx.ing.backend[i]) \in Backends(ingEx.ing)
         /\ \A r \in DOMAIN HTTPRules(ingEx.ing) : \A p \in DOMAIN HTTPRules(ingEx.ing)[r].paths :
              Used(HTTPRules(ingEx.ing)[r].host, HTTPRules(ingEx.ing)[r].paths[p]) \in Backends(ingEx.ing)
         /\ \A host, backend : BackendServers(ingEx, Used(host, backend)) = BackendServers(ingEx, backend)
<1> DEFINE ing == ingEx.ing
           rules == HTTPRules(ing)
<1>1. ASSUME NEW i \in DOMAIN ing.backend PROVE Used(emptyHost, ing.backend[i]) \in Backends(ing)
  <2>1. <<0, i>> \in Places(ing)
    BY Zenon DEF Places
  <2>2. BackendAt(ing, <<0, i>>) = Used(emptyHost, ing.backend[i])
    BY Zenon DEF BackendAt
  <2> QED BY ZenonT(60), <2>1, <2>2 DEF Backends
<1>2. ASSUME NEW r \in DOMAIN rules, NEW p \in DOMAIN rules[r].paths
      PROVE  Used(rules[r].host, rules[r].paths[p]) \in Backends(ing)
  <2>1. <<r, p>> \in Places(ing)
    BY SMTT(30), <1>2 DEF Places
  <2>2. r # 0
    BY SMTT(30) DEF IsIngress
  <2>3. BackendAt(ing, <<r, p>>) = Used(rules[r].host, rules[r].paths[p])
    BY Zenon, <2>2 DEF BackendAt
  <2> QED BY ZenonT(60), <2>1, <2>3 DEF Backends
<1>3. \A host, backend : BackendServers(ingEx, Used(host, backend)) = BackendServers(ingEx, backend)
  BY ZenonT(60) DEF BackendServers, EndpointsKey, Used
<1> QED BY Zenon, <1>1, <1>2, <1>3

\* A location has a path, and names the upstream of its backend.
Serves(location, ingEx, path, host, backend) ==
  /\ location.path = pathOrDefault(path)
  /\ Used(host, backend) \in Backends(ingEx.ing)
  /\ location.upstream.name = UpstreamName(ingEx.ing, Used(host, backend))

\* The location at the place of a path serves it.
LEMMA PathServed ==
  ASSUME NEW ingEx, IsIngress(ingEx.ing), NEW default, NEW r \in DOMAIN HTTPRules(ingEx.ing),
         NEW rule, rule = HTTPRules(ingEx.ing)[r], NEW p \in DOMAIN rule.paths, NEW location,
         location = generateNginxIngressCfg(ingEx, default).servers[r].locations[p]
  PROVE  Serves(location, ingEx, rule.paths[p].path, rule.host, rule.paths[p])
<1> DEFINE cfg == createIngressConfig(default, ingEx.ing.ann)
           rules == HTTPRules(ingEx.ing)
           servers == generateNginxIngressCfg(ingEx, default).servers
           made == createLocation(ingEx, cfg, rule.paths[p].path, rule.host, rule.paths[p])
<1>1. rule \in Range(ingEx.ing.rules)
  BY SMTT(30) DEF IsIngress
<1>2. made.path = pathOrDefault(rule.paths[p].path)
  BY ZenonT(60) DEF createLocation
<1>3. Used(rule.host, rule.paths[p]) \in Backends(ingEx.ing)
  BY ZenonT(60), BackendsMet
<1> HIDE DEF cfg, rules, servers
<1>4. servers[r] = RuleServer(ingEx, cfg, rule)
  <2>1. \A k \in DOMAIN rules : servers[k] = RuleServer(ingEx, cfg, rules[k])
    <3>1. ServersMade(ingEx, cfg, rules, servers)
      BY Zenon, Servers DEF cfg, rules, servers
    <3> QED BY Zenon, <3>1 DEF ServersMade
  <2>2. r \in DOMAIN rules /\ rule = rules[r]
    BY ZenonT(60) DEF rules
  <2> QED BY Zenon, <2>1, <2>2
<1>5. RuleServer(ingEx, cfg, rule).locations = Locations(ingEx, cfg, rule)
  BY Zenon DEF RuleServer, HTTPServer
<1>6. made = Locations(ingEx, cfg, rule)[p]
  BY ZenonT(60), <1>1, PathLocation
<1>7. PassesTo(made, UpstreamName(ingEx.ing, Used(rule.host, rule.paths[p])))
  BY Zenon, <1>3, LocationUpstream
<1> HIDE DEF made
<1>8. location = made
  BY Zenon, <1>4, <1>5, <1>6 DEF servers
<1> QED BY Zenon, <1>2, <1>3, <1>7, <1>8 DEF Serves, PassesTo

\* The server at the place of a rule is for its host, and has a location for each path.
IsServerOf(servers, r, rule, p) ==
  /\ r \in DOMAIN servers /\ servers[r].name = rule.host
  /\ servers[r].locations[p] \in Range(servers[r].locations)

LEMMA ServerOfRule ==
  ASSUME NEW ingEx, IsIngress(ingEx.ing), NEW default, NEW r \in DOMAIN HTTPRules(ingEx.ing),
         NEW p \in DOMAIN HTTPRules(ingEx.ing)[r].paths
  PROVE  IsServerOf(generateNginxIngressCfg(ingEx, default).servers, r, HTTPRules(ingEx.ing)[r], p)
<1> DEFINE rule == HTTPRules(ingEx.ing)[r]
           servers == generateNginxIngressCfg(ingEx, default).servers
<1> DEFINE cfg == createIngressConfig(default, ingEx.ing.ann)
           rules == HTTPRules(ingEx.ing)
<1>1. rule \in Range(ingEx.ing.rules)
  BY SMTT(30) DEF IsIngress
<1> HIDE DEF cfg, rules, servers
<1>2. r \in DOMAIN servers /\ servers[r] = RuleServer(ingEx, cfg, rule)
  <2>1. ServersMade(ingEx, cfg, rules, servers)
    BY Zenon, Servers DEF cfg, rules, servers
  <2> QED BY Zenon, <2>1 DEF ServersMade, rules
<1> HIDE DEF rule
<1>3. servers[r].name = rule.host /\ servers[r].locations = Locations(ingEx, cfg, rule)
  <2>1. /\ RuleServer(ingEx, cfg, rule).name = rule.host
        /\ RuleServer(ingEx, cfg, rule).locations = Locations(ingEx, cfg, rule)
    BY Zenon DEF RuleServer, HTTPServer
  <2> QED BY Zenon, <1>2, <2>1
<1>4. p \in DOMAIN Locations(ingEx, cfg, rule)
  BY Zenon, <1>1, PathLocation DEF rule
<1>5. IsServerOf(servers, r, rule, p)
  BY Zenon, <1>2, <1>3, <1>4 DEF IsServerOf, Range
<1> QED BY Zenon, <1>5 DEF servers, rule

ServerAt(n, r) == running.confd[n].servers[r]

\* If a server is the only one of its name, a request for the path of one of its
\* locations goes to that location.
LEMMA OneServerTakes ==
  ASSUME RunsWhatWasMade, NEW n \in DOMAIN running.confd, NEW r \in DOMAIN running.confd[n].servers,
         ServersNamed(ServerAt(n, r).name) \subseteq {<<n, r>>}, NEW l \in Range(ServerAt(n, r).locations)
  PROVE  Requests(ServerAt(n, r).name, l.path) = ProxyPass(l)
<1> USE DEF ServerAt
<1> DEFINE at == <<n, r>>
           s == ServerAt(n, r)
           LocationsAt(x) == Range(running.confd[x[1]].servers[x[2]].locations)
           locations == UNION {LocationsAt(x) : x \in ServersNamed(s.name)}
<1>1. at[1] = n /\ at[2] = r
  OBVIOUS
<1>2. at \in UNION {{m} \X DOMAIN running.confd[m].servers : m \in DOMAIN running.confd}
  <2>1. at \in {n} \X DOMAIN running.confd[n].servers
    BY Zenon
  <2> QED BY Zenon, <2>1
<1> HIDE DEF at
<1>3. ServersNamed(s.name) = {at}
  <2>1. at \in ServersNamed(s.name)
    BY Zenon, <1>1, <1>2 DEF ServersNamed
  <2> QED BY Zenon, <2>1 DEF at
<1>4. LocationsAt(at) = Range(s.locations)
  BY Zenon, <1>1
<1>5. locations = Range(s.locations)
  <2> HIDE DEF LocationsAt
  <2> QED BY Zenon, <1>3, <1>4
<1>6. s \in ServersOf(running.confd)
  <2>1. s \in Range(running.confd[n].servers)
    BY Zenon DEF Range
  <2> QED BY Zenon, <2>1 DEF ServersOf
<1>7. \A k \in Range(s.locations) : k.path = l.path => k = l
  BY Zenon, <1>6 DEF RunsWhatWasMade, NoPathTwice, Range
<1>8. Requests(s.name, l.path) = UNION {ProxyPass(k) : k \in {k \in locations : k.path = l.path}}
  BY Zenon DEF Requests
<1> HIDE DEF locations
<1>9. {k \in locations : k.path = l.path} = {l}
  BY Zenon, <1>5, <1>7
<1> QED BY Zenon, <1>8, <1>9

\* A request for a path of a rule goes to the endpoints of the service and port the
\* rule names (generateNginxIngressCfg), for any Ingresses whose names tell apart and
\* any host that one rule is for.
THEOREM PathsGoToBackend == Spec => []PathsReachBackend
<1> DEFINE Of(n) == running.given[n].of
           Rule(n, r) == HTTPRules(Of(n).ing)[r]
           Reaches(n, r, p) == Requests(Rule(n, r).host, pathOrDefault(Rule(n, r).paths[p].path))
                                 = BackendServers(Of(n), Rule(n, r).paths[p])
<1>1. ASSUME RunsWhatWasMade, NamesTellApart(running.given), NEW n \in DOMAIN running.given,
             NEW ingEx, ingEx = Of(n), NEW r \in DOMAIN HTTPRules(ingEx.ing), NEW rule, rule = Rule(n, r),
             ServersNamed(rule.host) \subseteq {<<n, r>>}, NEW p \in DOMAIN rule.paths
      PROVE  Reaches(n, r, p)
  <2> DEFINE default == running.given[n].context
             backend == Used(rule.host, rule.paths[p])
             s == running.confd[n].servers[r]
             location == s.locations[p]
  <2>1. /\ IsIngress(ingEx.ing) /\ running.confd[n] = generateNginxIngressCfg(ingEx, default)
        /\ n \in DOMAIN running.confd
    BY Zenon, <1>1, IngressesAssumption DEF RunsWhatWasMade, Generated
  <2> HIDE DEF default
  <2>2. /\ location.path = pathOrDefault(rule.paths[p].path)
        /\ backend \in Backends(ingEx.ing)
        /\ location.upstream.name = UpstreamName(ingEx.ing, backend)
    <3>1. location = generateNginxIngressCfg(ingEx, default).servers[r].locations[p]
      BY Zenon, <1>1, <2>1
    <3>2. Serves(location, ingEx, rule.paths[p].path, rule.host, rule.paths[p])
      BY ZenonT(60), <1>1, <2>1, <3>1, PathServed
    <3> QED BY Zenon, <3>2 DEF Serves
  <2>3. r \in DOMAIN running.confd[n].servers /\ s.name = rule.host /\ location \in Range(s.locations)
    <3> DEFINE servers == running.confd[n].servers
    <3>1. servers = generateNginxIngressCfg(ingEx, default).servers
      BY Zenon, <2>1
    <3> HIDE DEF servers
    <3>2. IsServerOf(generateNginxIngressCfg(ingEx, default).servers, r, rule, p)
      BY ZenonT(60), <1>1, <2>1, ServerOfRule
    <3>3. IsServerOf(servers, r, rule, p)
      BY Zenon, <3>1, <3>2
    <3> QED BY Zenon, <3>3 DEF IsServerOf, servers
  <2>4. BackendServers(ingEx, backend) = BackendServers(ingEx, rule.paths[p])
    BY ZenonT(60), <2>1, BackendsMet
  <2> HIDE DEF backend, location, s
  <2>5. ProxyPass(location) = BackendServers(ingEx, backend)
    BY ZenonT(60), <1>1, <2>2, WhereRequestsGo
  <2>6. Requests(s.name, location.path) = ProxyPass(location)
    <3>1. /\ s = ServerAt(n, r) /\ ServersNamed(ServerAt(n, r).name) \subseteq {<<n, r>>}
          /\ r \in DOMAIN running.confd[n].servers /\ location \in Range(ServerAt(n, r).locations)
      BY Zenon, <1>1, <2>3 DEF s, ServerAt
    <3> HIDE DEF Of, Rule
    <3>2. Requests(ServerAt(n, r).name, location.path) = ProxyPass(location)
      BY ZenonT(60), <1>1, <2>1, <3>1, OneServerTakes
    <3> QED BY Zenon, <3>1, <3>2
  <2>7. Requests(rule.host, pathOrDefault(rule.paths[p].path)) = BackendServers(ingEx, rule.paths[p])
    BY Zenon, <2>2, <2>3, <2>4, <2>5, <2>6
  <2> QED BY Zenon, <1>1, <2>7
<1>2. ASSUME RunsWhatWasMade, NamesTellApart(running.given), NEW n \in DOMAIN running.given,
             NEW r \in DOMAIN HTTPRules(Of(n).ing), ServersNamed(Rule(n, r).host) \subseteq {<<n, r>>},
             NEW p \in DOMAIN Rule(n, r).paths
      PROVE  Reaches(n, r, p)
  <2>1. PICK ingEx, rule : ingEx = Of(n) /\ rule = Rule(n, r)
    BY Zenon
  <2> HIDE DEF Of, Rule, Reaches
  <2>2. /\ r \in DOMAIN HTTPRules(ingEx.ing) /\ ServersNamed(rule.host) \subseteq {<<n, r>>}
        /\ p \in DOMAIN rule.paths
    BY Zenon, <1>2, <2>1
  <2> QED BY ZenonT(60), <1>1, <1>2, <2>1, <2>2
<1>3. ASSUME RunsWhatWasMade PROVE PathsReachBackend
  BY ZenonT(60), <1>2, <1>3 DEF PathsReachBackend
<1> QED BY <1>3, HTTPInvariance, PTL

\* A server of an Ingress with a default backend has a location for it, unless it is
\* for a rule one of whose paths takes the root.
LEMMA RootServed ==
  ASSUME NEW ingEx, IsIngress(ingEx.ing), NEW default, NEW i \in DOMAIN ingEx.ing.backend,
         NEW servers, servers = generateNginxIngressCfg(ingEx, default).servers, NEW r \in DOMAIN servers,
         ~(/\ r \in DOMAIN HTTPRules(ingEx.ing)
           /\ \E path \in Range(HTTPRules(ingEx.ing)[r].paths) : pathOrDefault(path.path) = Root)
  PROVE  \E l \in Range(servers[r].locations) :
           Serves(l, ingEx, Root, emptyHost, ingEx.ing.backend[i])
<1> DEFINE cfg == createIngressConfig(default, ingEx.ing.ann)
           rules == HTTPRules(ingEx.ing)
           backend == ingEx.ing.backend[i]
           l == createLocation(ingEx, cfg, Root, emptyHost, backend)
<1> HIDE DEF cfg, rules, l
<1>1. /\ \A k \in DOMAIN rules : servers[k] = RuleServer(ingEx, cfg, rules[k])
      /\ \A k \in DOMAIN servers \ DOMAIN rules : servers[k] = DefaultBackendServer(ingEx, cfg)
  <2>1. ServersMade(ingEx, cfg, rules, servers)
    BY Zenon, Servers DEF cfg, rules
  <2> QED BY Zenon, <2>1 DEF ServersMade
<1>2. \A rule : RuleServer(ingEx, cfg, rule).locations = Locations(ingEx, cfg, rule)
  BY Zenon DEF RuleServer, HTTPServer
<1>3. DefaultBackendServer(ingEx, cfg).locations = DefaultLocation(ingEx, cfg)
  BY ZenonT(60) DEF DefaultBackendServer, HTTPServer
<1>4. l \in Range(servers[r].locations)
  <2>1. CASE r \in DOMAIN rules
    <3>1. rules[r] \in Range(ingEx.ing.rules)
      BY SMTT(30), <2>1 DEF IsIngress, rules
    <3>2. ~\E path \in Range(rules[r].paths) : pathOrDefault(path.path) = Root
      BY Zenon, <2>1 DEF rules
    <3>3. l \in Range(Locations(ingEx, cfg, rules[r]))
      BY Zenon, <3>1, <3>2, RootLocation DEF l
    <3>4. servers[r].locations = Locations(ingEx, cfg, rules[r])
      BY Zenon, <1>1, <1>2, <2>1
    <3> QED BY Zenon, <3>3, <3>4
  <2>2. CASE r \notin DOMAIN rules
    <3>1. servers[r].locations = DefaultLocation(ingEx, cfg)
      BY Zenon, <1>1, <1>3, <2>2
    <3>2. l = DefaultLocation(ingEx, cfg)[i] /\ i \in DOMAIN DefaultLocation(ingEx, cfg)
      BY Zenon DEF DefaultLocation, l
    <3> QED BY Zenon, <3>1, <3>2 DEF Range
  <2> QED BY Zenon, <2>1, <2>2
<1>5. l.path = pathOrDefault(Root)
  BY Zenon DEF createLocation, l
<1>6. Used(emptyHost, backend) \in Backends(ingEx.ing)
  BY ZenonT(60), BackendsMet
<1>7. PassesTo(l, UpstreamName(ingEx.ing, Used(emptyHost, backend)))
  BY Zenon, <1>6, LocationUpstream DEF l
<1>8. Serves(l, ingEx, Root, emptyHost, backend)
  BY Zenon, <1>5, <1>6, <1>7 DEF Serves, PassesTo
<1> QED BY ZenonT(60), <1>4, <1>8

\* Requests that no path of a rule takes go to the default backend
\* (generateNginxIngressCfg, rootLocation), for any Ingresses whose names tell apart
\* and any server that is the only one of its name.
THEOREM RestGoesToDefaultBackend == Spec => []DefaultBackendTakesRest
<1> DEFINE Of(n) == running.given[n].of
           Host(n, r) == running.confd[n].servers[r].name
           TakesRoot(n, r) ==
             /\ r \in DOMAIN HTTPRules(Of(n).ing)
             /\ \E path \in Range(HTTPRules(Of(n).ing)[r].paths) : pathOrDefault(path.path) = Root
           Rest(n, i, r) == Requests(Host(n, r), Root) = BackendServers(Of(n), Of(n).ing.backend[i])
<1>1. ASSUME RunsWhatWasMade, NamesTellApart(running.given), NEW n \in DOMAIN running.given,
             NEW i \in DOMAIN Of(n).ing.backend, NEW r \in DOMAIN running.confd[n].servers,
             ServersNamed(Host(n, r)) \subseteq {<<n, r>>}, ~TakesRoot(n, r)
      PROVE  Rest(n, i, r)
  <2> DEFINE default == running.given[n].context
             servers == running.confd[n].servers
             backend == Of(n).ing.backend[i]
  <2>0. PICK ingEx : ingEx = Of(n)
    BY Zenon
  <2>1. /\ IsIngress(ingEx.ing) /\ servers = generateNginxIngressCfg(ingEx, default).servers
        /\ n \in DOMAIN running.confd
    BY ZenonT(60), <1>1, <2>0, IngressesAssumption DEF RunsWhatWasMade, Generated
  <2>2. /\ ingEx = running.given[n].of /\ i \in DOMAIN ingEx.ing.backend /\ backend = ingEx.ing.backend[i]
        /\ ~(/\ r \in DOMAIN HTTPRules(ingEx.ing)
             /\ \E path \in Range(HTTPRules(ingEx.ing)[r].paths) : pathOrDefault(path.path) = Root)
    BY Zenon, <1>1, <2>0
  <2>3. /\ ServersNamed(ServerAt(n, r).name) \subseteq {<<n, r>>} /\ Host(n, r) = ServerAt(n, r).name
        /\ servers[r] = ServerAt(n, r) /\ r \in DOMAIN servers
    BY Zenon, <1>1 DEF ServerAt
  <2> HIDE DEF Of, Host, TakesRoot, default, servers, backend
  <2>4. PICK l \in Range(servers[r].locations) : Serves(l, ingEx, Root, emptyHost, backend)
    BY ZenonT(60), <2>1, <2>2, <2>3, RootServed
  <2>5. l.path = Root
    BY ZenonT(60), <2>4 DEF Serves, pathOrDefault
  <2>6. BackendServers(ingEx, Used(emptyHost, backend)) = BackendServers(ingEx, backend)
    BY Zenon, <2>1, BackendsMet
  <2>7. ProxyPass(l) = BackendServers(ingEx, Used(emptyHost, backend))
    BY ZenonT(60), <1>1, <2>2, <2>4, WhereRequestsGo DEF Serves
  <2>8. Requests(Host(n, r), l.path) = ProxyPass(l)
    <3>1. l \in Range(ServerAt(n, r).locations)
      BY Zenon, <2>3, <2>4
    <3>2. Requests(ServerAt(n, r).name, l.path) = ProxyPass(l)
      BY ZenonT(60), <1>1, <2>1, <2>3, <3>1, OneServerTakes
    <3> QED BY Zenon, <2>3, <3>2
  <2> QED BY Zenon, <2>0, <2>5, <2>6, <2>7, <2>8 DEF backend
<1>2. RunsWhatWasMade => DefaultBackendTakesRest
  <2> SUFFICES ASSUME RunsWhatWasMade, NamesTellApart(running.given), NEW n \in DOMAIN running.given,
                      NEW i \in DOMAIN Of(n).ing.backend, NEW r \in DOMAIN running.confd[n].servers,
                      ServersNamed(Host(n, r)) \subseteq {<<n, r>>}
               PROVE  TakesRoot(n, r) \/ Rest(n, i, r)
    BY Zenon DEF DefaultBackendTakesRest
  <2> HIDE DEF Of, Host, TakesRoot, Rest
  <2> QED BY Zenon, <1>1
<1> QED BY <1>2, HTTPInvariance, PTL

\* No two locations of a server have one path, if the rules have none twice.
LEMMA PathsOfServer ==
  ASSUME NEW ingEx, IsIngress(ingEx.ing), NEW default,
         \A rule \in Range(HTTPRules(ingEx.ing)) : OwnPathsDiffer(rule),
         NEW s \in Range(generateNginxIngressCfg(ingEx, default).servers)
  PROVE  NoPathTwice(s.locations)
<1> DEFINE cfg == createIngressConfig(default, ingEx.ing.ann)
           rules == HTTPRules(ingEx.ing)
           servers == generateNginxIngressCfg(ingEx, default).servers
<1>1. PICK r \in DOMAIN servers : s = servers[r]
  BY ZenonT(60) DEF Range
<1> HIDE DEF cfg, rules, servers
<1>2. ServersMade(ingEx, cfg, rules, servers)
  BY Zenon, Servers DEF cfg, rules, servers
<1>3. CASE r \in DOMAIN rules
  <2>1. rules[r] \in Range(ingEx.ing.rules) /\ rules[r] \in Range(rules)
    <3>1. rules \in Seq(Range(ingEx.ing.rules))
      BY Zenon DEF IsIngress, rules
    <3> QED BY SMTT(30), <1>3, <3>1 DEF Range
  <2>2. s.locations = Locations(ingEx, cfg, rules[r])
    <3>1. RuleServer(ingEx, cfg, rules[r]).locations = Locations(ingEx, cfg, rules[r])
      BY Zenon DEF RuleServer, HTTPServer
    <3> QED BY ZenonT(60), <1>1, <1>2, <1>3, <3>1 DEF ServersMade
  <2>3. OwnPathsDiffer(rules[r])
    BY ZenonT(60), <2>1 DEF rules
  <2> QED BY ZenonT(60), <2>1, <2>2, <2>3, LocationsDiffer
<1>4. CASE r \notin DOMAIN rules
  <2>1. s.locations = DefaultLocation(ingEx, cfg)
    <3>1. DefaultBackendServer(ingEx, cfg).locations = DefaultLocation(ingEx, cfg)
      BY Zenon DEF DefaultBackendServer, HTTPServer
    <3> QED BY Zenon, <1>1, <1>2, <1>4, <3>1 DEF ServersMade
  <2>2. DOMAIN DefaultLocation(ingEx, cfg) = DOMAIN ingEx.ing.backend
    BY ZenonT(60) DEF DefaultLocation
  <2>3. DOMAIN ingEx.ing.backend \subseteq {1}
    BY SMTT(30) DEF IsIngress
  <2>4. \A k \in DOMAIN s.locations : k = 1
    BY Zenon, <2>1, <2>2, <2>3
  <2> QED BY Zenon, <2>4 DEF NoPathTwice
<1> QED BY Zenon, <1>3, <1>4

\* NGINX takes the texts of an Ingress and of a context.
IngressTextsFit(ing, context) ==
  /\ \A setting \in TextSettings : /\ Fits(setting, context[setting])
                                   /\ setting \in DOMAIN ing.ann => Fits(setting, ing.ann[setting])
  /\ \A rule \in Range(HTTPRules(ing)) : \A path \in Range(rule.paths) :
       Takes("location", pathOrDefault(path.path)) /\ Fits("rewrite", Rewrite(ing.ann, path.svc))
  /\ \A backend \in Range(ing.backend) : Fits("rewrite", Rewrite(ing.ann, backend.svc))

\* Then it takes those of the settings made of them.
LEMMA SettingsFit ==
  ASSUME NEW ing, NEW context, IngressTextsFit(ing, context)
  PROVE  \A setting \in TextSettings : Fits(setting, createIngressConfig(context, ing.ann)[setting])
<1> SUFFICES ASSUME NEW setting \in TextSettings
             PROVE  Fits(setting, createIngressConfig(context, ing.ann)[setting])
  OBVIOUS
<1>1. setting \in HTTPSettings
  BY Zenon DEF HTTPSettings
<1>2. \/ createIngressConfig(context, ing.ann)[setting] = context[setting]
      \/ setting \in DOMAIN ing.ann /\ createIngressConfig(context, ing.ann)[setting] = ing.ann[setting]
  BY Zenon, <1>1 DEF createIngressConfig, Parsed
<1> QED BY Zenon, <1>2 DEF IngressTextsFit

\* And it takes the locations.
LEMMA LocationsFit ==
  ASSUME NEW ingEx, NEW context, IngressTextsFit(ingEx.ing, context), NEW cfg, NEW l, MadeLocation(ingEx, cfg, l),
         \A setting \in TextSettings : Fits(setting, cfg[setting])
  PROVE  LocationFits(l)
<1> DEFINE ann == ingEx.ing.ann
<1>1. ASSUME NEW path, NEW host, NEW backend, l = createLocation(ingEx, cfg, path, host, backend),
             Takes("location", pathOrDefault(path)), Fits("rewrite", Rewrite(ann, backend.svc))
      PROVE  LocationFits(l)
  <2>1. /\ l.path = pathOrDefault(path) /\ l.rewrite = Rewrite(ann, backend.svc)
        /\ l.settings = Restrict(cfg, LocationSettings)
    BY Zenon, <1>1 DEF createLocation
  <2>2. \A setting \in LocationSettings : l.settings[setting] = cfg[setting]
    BY Zenon, <2>1 DEF Restrict
  <2> QED BY Zenon, <1>1, <2>1, <2>2 DEF LocationFits
<1>2. Takes("location", pathOrDefault(Root))
  BY Zenon, RootAssumption DEF pathOrDefault
<1> QED BY Zenon, <1>1, <1>2 DEF MadeLocation, IngressTextsFit

\* What is generated is taken by NGINX, together with all the other Ingresses, as
\* long as names and paths tell apart and NGINX takes the texts, the secrets and the
\* context that go into it as they are (generateNginxIngressCfg, updateCertificates).
THEOREM GeneratedStaysAccepted == Spec => []GeneratedHTTPAccepted
<1>1. ASSUME FilesAsMade, SecretsWritten, NamesTellApart(given), PathsDiffer(given),
             TextsFit(given), FilesFit
      PROVE  HTTPAccepts(mainCfg, confd, ssl, dhparam)
  <2> DEFINE Of(n) == given[n].of
  <2>1. /\ DOMAIN confd = DOMAIN given
        /\ \A n \in DOMAIN given : /\ confd[n] = generateNginxIngressCfg(Of(n), given[n].context)
                                   /\ IsIngress(Of(n).ing)
    BY Zenon, <1>1, IngressesAssumption DEF FilesAsMade, Generated
  <2>2. ASSUME NEW u \in UpstreamsOf(confd), NEW v \in UpstreamsOf(confd), u[2] = v[2] PROVE u = v
    <3>1. ASSUME NEW w \in UpstreamsOf(confd)
          PROVE  \E n \in DOMAIN given : \E b \in Backends(Of(n).ing) : w = <<n, Joined(given[n], b)>>
      <4>1. PICK n \in DOMAIN confd : w \in {<<n, x.name>> : x \in confd[n].upstreams}
        BY ZenonT(60) DEF UpstreamsOf
      <4>2. confd[n].upstreams = Upstreams(Of(n)) /\ n \in DOMAIN given /\ IsIngress(Of(n).ing)
        <5>1. \A ingEx, default : generateNginxIngressCfg(ingEx, default).upstreams = Upstreams(ingEx)
          BY Zenon DEF generateNginxIngressCfg
        <5> QED BY SMTT(30), <2>1, <4>1, <5>1
      <4>3. PICK x \in Upstreams(Of(n)) : w = <<n, x.name>>
        BY Zenon, <4>1, <4>2
      <4> HIDE DEF Of
      <4>4. PICK b \in Backends(Of(n).ing) : x.name = UpstreamName(Of(n).ing, b)
        BY Zenon, <4>2, <4>3, UpstreamsOfBackends
      <4>5. UpstreamName(Of(n).ing, b) = Joined(given[n], b)
        BY Zenon DEF UpstreamName, getNameForUpstream, Joined, Of
      <4> QED BY ZenonT(60), <4>2, <4>3, <4>4, <4>5
    <3>2. PICK m \in DOMAIN given : \E b \in Backends(Of(m).ing) : u = <<m, Joined(given[m], b)>>
      BY Zenon, <3>1
    <3>3. PICK b \in Backends(Of(m).ing) : u = <<m, Joined(given[m], b)>>
      BY Zenon, <3>2
    <3>4. PICK n \in DOMAIN given : \E c \in Backends(Of(n).ing) : v = <<n, Joined(given[n], c)>>
      BY Zenon, <3>1
    <3>5. PICK c \in Backends(Of(n).ing) : v = <<n, Joined(given[n], c)>>
      BY Zenon, <3>4
    <3>6. Joined(given[m], b) = Joined(given[n], c)
      BY Zenon, <2>2, <3>3, <3>5
    <3>7. m = n
      BY Zenon, <1>1, <3>6 DEF NamesTellApart
    <3> QED BY ZenonT(60), <3>3, <3>5, <3>6, <3>7
  <2>3. ASSUME NEW s \in ServersOf(confd) PROVE ServerFits(s, ssl)
    <3>1. PICK n \in DOMAIN given :
            s \in Range(generateNginxIngressCfg(Of(n), given[n].context).servers)
      BY ZenonT(60), <2>1 DEF ServersOf
    <3> DEFINE ing == Of(n).ing
               made == createIngressConfig(given[n].context, ing.ann)
    <3>2. IsIngress(ing)
      BY Zenon, <2>1
    <3>3. \A rule \in Range(HTTPRules(ing)) : OwnPathsDiffer(rule)
      BY Zenon, <1>1 DEF PathsDiffer, OwnPathsDiffer
    <3>4. IngressTextsFit(ing, given[n].context)
      BY Zenon, <1>1 DEF TextsFit, IngressTextsFit
    <3> HIDE DEF Of
    <3>5. NoPathTwice(s.locations)
      BY ZenonT(60), <3>1, <3>2, <3>3, PathsOfServer
    <3>6. \A setting \in TextSettings : Fits(setting, made[setting])
      BY ZenonT(60), <3>4, SettingsFit
    <3>7. \A l \in Range(s.locations) : MadeLocation(Of(n), made, l)
      BY ZenonT(60), <3>1, <3>2, LocationsOfServer
    <3>8. s.settings = Restrict(made, ServerSettings) /\ s.pem = PemOf(Of(n), s.name)
      BY ZenonT(60), <3>1, <3>2, ServerFields
    <3> HIDE DEF made
    <3>9. \A l \in Range(s.locations) : LocationFits(l)
      BY ZenonT(60), <3>4, <3>6, <3>7, LocationsFit
    <3>10. \A setting \in TextSettings \cap ServerSettings : Fits(setting, s.settings[setting])
      <4>1. \A setting \in ServerSettings : Restrict(made, ServerSettings)[setting] = made[setting]
        BY Zenon DEF Restrict
      <4> QED BY Zenon, <3>6, <3>8, <4>1
    <3>11. ASSUME s.pem # NoPem PROVE s.pem \in DOMAIN ssl /\ Takes("ssl_certificate", ssl[s.pem])
      <4>1. PemOf(Of(n), s.name) # NoPem
        BY Zenon, <3>8, <3>11
      <4>2. PICK tls \in CompleteTLS(Of(n)) : PemOf(Of(n), s.name) = KeyPem(<<Of(n).ing.ns, tls.secret>>)
        BY Zenon, <3>2, <4>1, PemIsOfSecret
      <4>3. <<Of(n).ing.ns, tls.secret>> \in DOMAIN latest
        BY Zenon, <1>1 DEF SecretsWritten, Written, SecretKeys, Of
      <4>4. s.pem \in DOMAIN ssl
        BY ZenonT(60), <1>1, <3>8, <4>2, <4>3 DEF SecretsWritten, Written
      <4>5. \E k \in DOMAIN latest : ssl[s.pem] = latest[k]
        BY Zenon, <1>1, <4>4 DEF SecretsWritten, Written
      <4> QED BY Zenon, <1>1, <4>4, <4>5 DEF FilesFit
    <3> QED BY Zenon, <3>5, <3>9, <3>10, <3>11 DEF ServerFits, NoPathTwice
  <2>4. mainCfg.dhparam => \E content \in dhparam : Takes("ssl_dhparam", content)
    BY Zenon, <1>1 DEF FilesAsMade, FilesFit
  <2> QED BY Zenon, <1>1, <2>2, <2>3, <2>4 DEF HTTPAccepts, FilesFit
<1>2. FilesAsMade /\ SecretsWritten => GeneratedHTTPAccepted
  BY Zenon, <1>1 DEF GeneratedHTTPAccepted
<1> QED BY <1>2, HTTPInvariance, PTL
=============================================================================
