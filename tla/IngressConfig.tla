---------------------------- MODULE IngressConfig ----------------------------
(***************************************************************************)
(* nginx/configurator.go, nginx/http.go, nginx/convert.go: the HTTP        *)
(* configuration of one Ingress.                                           *)
(*                                                                         *)
(* A name, a host or a port is the sequence of its tokens, "-" and the     *)
(* digits of a port being tokens of their own.  An IngressEx is a record   *)
(* [ing, secrets, endpoints]; an Ingress is a record [ns, name, ann,       *)
(* backend, rules, tls]: backend is a sequence of at most one [svc, port], *)
(* rules a sequence of [host, http, paths], http telling whether the rule  *)
(* has paths at all, paths a sequence of [path, svc, port], and tls a      *)
(* sequence of [secret, hosts].  ann maps settings to texts, and           *)
(* "websocket", "ssl" and "rewrites" to what they say of services.  Paths  *)
(* are texts, of which only the empty one and the root are told apart.     *)
(***************************************************************************)
EXTENDS Text, Sequences, Functions, FiniteSetsExt

emptyHost == <<>>
dash == <<"-">>
Root == <<"str", "/">>

-----------------------------------------------------------------------------
(* Settings *)

\* proxy-read-timeout and server-snippets stand for the settings that are taken as
\* they are, redirect-to-https for the ones that are parsed; the three of hsts go
\* together.  Some settings are of locations, the others of servers.
TextSettings == {"proxy-read-timeout", "server-snippets"}
BoolSettings == {"redirect-to-https"}
HSTSSettings == {"hsts", "hsts-max-age", "hsts-include-subdomains"}
HTTPSettings == TextSettings \cup BoolSettings \cup HSTSSettings
LocationSettings == {"proxy-read-timeout"}
ServerSettings == HTTPSettings \ LocationSettings

NewDefaultHTTPContext ==
  [s \in HTTPSettings |-> CASE s = "proxy-read-timeout" -> <<"str", "60s">>
                            [] s = "server-snippets" -> EmptyText
                            [] s = "hsts-max-age" -> <<"int", 2592000>>
                            [] OTHER -> <<"bool", FALSE>>]

\* GetMapKeyAsBool, GetMapKeyAsInt
WellFormed(s, text) == CASE s \in TextSettings -> TRUE
                         [] s = "hsts-max-age" -> IsInt(text)
                         [] OTHER -> IsBool(text)

\* A bug: each annotation of the three counts by itself.
HSTSApplies_Singly(ann) == "hsts" \in DOMAIN ann

\* All of the hsts annotations or none.
HSTSApplies(ann) ==
  /\ "hsts" \in DOMAIN ann
  /\ \A s \in HSTSSettings \cap DOMAIN ann : WellFormed(s, ann[s])

Parsed(s, text) == IF s \notin TextSettings /\ IsBool(text) /\ s # "hsts-max-age"
                   THEN <<"bool", BoolOf(text)>> ELSE text

createIngressConfig(config, ann) ==
  [s \in HTTPSettings |->
     IF s \in DOMAIN ann /\ WellFormed(s, ann[s]) /\ (s \in HSTSSettings => HSTSApplies(ann))
     THEN Parsed(s, ann[s]) ELSE config[s]]

-----------------------------------------------------------------------------
(* Upstreams and locations *)

\* A bug: the name of the service is left out.
getNameForUpstream_NoService(ing, host, svc) == ing.ns \o dash \o ing.name \o dash \o host

getNameForUpstream(ing, host, svc) == ing.ns \o dash \o ing.name \o dash \o host \o dash \o svc

\* Endpoints are keyed by the name of the service and, right behind it, the port.
EndpointsKey(backend) == backend.svc \o backend.port

DefaultServer == "127.0.0.1:8181"

BackendServers(ingEx, backend) ==
  LET key == EndpointsKey(backend)
  IN IF key \in DOMAIN ingEx.endpoints /\ ingEx.endpoints[key] # {} THEN ingEx.endpoints[key]
     ELSE {DefaultServer}

createUpstream(ingEx, name, backend) == [name |-> name, servers |-> BackendServers(ingEx, backend)]

HTTPRules(ing) == SelectSeq(ing.rules, LAMBDA r : r.http)

Used(host, backend) == [host |-> host, svc |-> backend.svc, port |-> backend.port]

\* Where a backend is met: the default backend first, as if in a rule 0, then the
\* paths of each rule.
Places(ing) ==
  ({0} \X DOMAIN ing.backend) \cup
  UNION {{r} \X DOMAIN HTTPRules(ing)[r].paths : r \in DOMAIN HTTPRules(ing)}

MetBefore(a, b) == a[1] < b[1] \/ (a[1] = b[1] /\ a[2] < b[2])

BackendAt(ing, at) ==
  IF at[1] = 0 THEN Used(emptyHost, ing.backend[at[2]])
  ELSE Used(HTTPRules(ing)[at[1]].host, HTTPRules(ing)[at[1]].paths[at[2]])

Backends(ing) == {BackendAt(ing, at) : at \in Places(ing)}

UpstreamName(ing, backend) == getNameForUpstream(ing, backend.host, backend.svc)

\* The first backend of a name makes the upstream, the others find it there.
Upstreams(ingEx) ==
  LET Name(at) == UpstreamName(ingEx.ing, BackendAt(ingEx.ing, at))
      Makes(at) == \A b \in Places(ingEx.ing) : MetBefore(b, at) => Name(b) # Name(at)
  IN {createUpstream(ingEx, Name(at), BackendAt(ingEx.ing, at)) : at \in {at \in Places(ingEx.ing) : Makes(at)}}

UpstreamNamed(ingEx, name) == CHOOSE u \in Upstreams(ingEx) : u.name = name

pathOrDefault(path) == IF path = EmptyText THEN Root ELSE path

Annotated(ann, what) == IF what \in DOMAIN ann THEN ann[what] ELSE {}

\* ann.rewrites is a sequence of [ok, svc, path], ok telling that it parses.
Rewrite(ann, svc) ==
  LET parsed == IF "rewrites" \in DOMAIN ann
                THEN SelectSeq(ann.rewrites, LAMBDA r : r.ok /\ r.svc = svc) ELSE <<>>
  IN IF parsed = <<>> THEN EmptyText ELSE parsed[Len(parsed)].path

createLocation(ingEx, config, path, host, backend) ==
  LET ann == ingEx.ing.ann
  IN [path |-> pathOrDefault(path),
      upstream |-> UpstreamNamed(ingEx, getNameForUpstream(ingEx.ing, host, backend.svc)),
      settings |-> Restrict(config, LocationSettings),
      websocket |-> backend.svc \in Annotated(ann, "websocket"),
      ssl |-> backend.svc \in Annotated(ann, "ssl"),
      rewrite |-> Rewrite(ann, backend.svc)]

DefaultLocation(ingEx, config) ==
  [i \in DOMAIN ingEx.ing.backend |-> createLocation(ingEx, config, Root, emptyHost, ingEx.ing.backend[i])]

RuleLocations(ingEx, config, rule) ==
  [p \in DOMAIN rule.paths |-> createLocation(ingEx, config, rule.paths[p].path, rule.host, rule.paths[p])]

\* A bug: an empty path is not taken for the root when the root is looked for.
Locations_RootMissed(ingEx, config, rule) ==
  LET own == RuleLocations(ingEx, config, rule)
  IN own \o IF \E p \in DOMAIN rule.paths : rule.paths[p].path = Root THEN <<>>
            ELSE DefaultLocation(ingEx, config)

\* A bug: the default backend is served only by an Ingress without rules.
Locations_NoDefault(ingEx, config, rule) == RuleLocations(ingEx, config, rule)

\* The default backend takes the root that no path of the rule takes.
Locations(ingEx, config, rule) ==
  LET own == RuleLocations(ingEx, config, rule)
  IN own \o IF \E p \in DOMAIN own : own[p].path = Root THEN <<>>
            ELSE DefaultLocation(ingEx, config)

-----------------------------------------------------------------------------
(* Certificates *)

Complete(ingEx, tls) == /\ tls.secret \in DOMAIN ingEx.secrets
                        /\ {"cert", "key"} \subseteq DOMAIN ingEx.secrets[tls.secret]

\* A bug: the name of the namespace is left out.
PemName_NoNamespace(ing, secret) == secret

PemName(ing, secret) == ing.ns \o dash \o secret

CompleteTLS(ingEx) == {tls \in Range(ingEx.ing.tls) : Complete(ingEx, tls)}

\* What AddOrUpdateCertAndKey writes, by file.
Pems(ingEx) ==
  [pem \in {PemName(ingEx.ing, tls.secret) : tls \in CompleteTLS(ingEx)} |->
     LET tls == CHOOSE t \in CompleteTLS(ingEx) : PemName(ingEx.ing, t.secret) = pem
     IN ingEx.secrets[tls.secret]]

Covers(tls, host) == host \in tls.hosts \/ (tls.hosts = {} /\ host = emptyHost)

NoPem == <<>>

\* The entry that comes last has the host.
PemOf(ingEx, host) ==
  LET tls == ingEx.ing.tls
      covering == {i \in DOMAIN tls : Complete(ingEx, tls[i]) /\ Covers(tls[i], host)}
  IN IF covering = {} THEN NoPem ELSE PemName(ingEx.ing, tls[Max(covering)].secret)

-----------------------------------------------------------------------------
(* The configuration *)

HTTPServer(ingEx, config, host, locations) ==
  [name |-> host, pem |-> PemOf(ingEx, host), locations |-> locations,
   settings |-> Restrict(config, ServerSettings)]

generateNginxIngressCfg(ingEx, default) ==
  LET ing == ingEx.ing
      config == createIngressConfig(default, ing.ann)
      rules == HTTPRules(ing)
  IN [upstreams |-> Upstreams(ingEx),
      servers |-> [r \in DOMAIN rules |->
                     HTTPServer(ingEx, config, rules[r].host, Locations(ingEx, config, rules[r]))]
                  \o IF ing.rules = <<>> /\ ing.backend # <<>>
                     THEN <<HTTPServer(ingEx, config, emptyHost, DefaultLocation(ingEx, config))>>
                     ELSE <<>>]
=============================================================================
