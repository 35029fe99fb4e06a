--------------------------- MODULE HTTPConfigurator ---------------------------
(***************************************************************************)
(* nginx/configurator.go, nginx/http.go: the operations of a Configurator  *)
(* for Ingress resources, made with cfgType HTTPCfg.  lbex itself makes    *)
(* one with StreamCfg and calls none of them; they are what the package    *)
(* offers its callers.  Each holds the lock of the Configurator from its   *)
(* first write to the reload, except AddOrUpdateDHParam.  NGINX follows a  *)
(* signal in its own time, and may find the certificates of an Ingress     *)
(* written and its configuration not.                                      *)
(***************************************************************************)
EXTENDS IngressConfig, FiniteSets

CONSTANTS IngressExs(_),   \* what an Ingress of a given name may be
          Names,           \* the names of the configurations
          Contexts,        \* the contexts a caller may ask for
          DHParams,        \* what a caller may have written to dhparam.pem
          Takes(_, _),     \* external: the texts and files NGINX takes, by directive
          MaxUpdates,      \* bound: how often Ingresses are added or updated
          healthStatus     \* whether lbex is to answer health checks

\* The rules of an Ingress that have paths are a list, as all its rules are, and so
\* are the paths of a rule and the entries of tls; there is at most one backend.
IsIngress(ing) ==
  /\ HTTPRules(ing) \in Seq(Range(ing.rules))
  /\ \A rule \in Range(ing.rules) : rule.paths \in Seq(Range(rule.paths))
  /\ ing.tls \in Seq(Range(ing.tls))
  /\ ing.backend \in Seq(Range(ing.backend)) /\ Len(ing.backend) <= 1

ASSUME IngressesAssumption ==
  \A name \in Names : \A ingEx \in IngressExs(name) : IsIngress(ingEx.ing)

ASSUME RootAssumption == Takes("location", Root)

VARIABLES
  config,    \* cfgtor.config, the settings an Ingress starts from
  mainCfg,   \* ngxc.mainCfg.HTTPContext, and the main file made from it
  confd,     \* the *.http.conf files, by name
  ssl,       \* the certificates in the ssl directory, by name
  dhparam,   \* the contents of dhparam.pem, if it is in the ssl directory
  op,        \* the Ingress AddOrUpdateIngress is at, if any
  reloadErr, \* how the last reload failed: "", "test", "signal" or, in NGINX, "load"
  hup,       \* NGINX is told to reload and has not done so yet
  running,   \* what NGINX works with, and the histories of that
  asked,     \* history: the settings that were last asked for
  given,     \* history: the Ingress and the asked settings a file was made from
  latest,    \* history: the contents of a secret last seen, by namespace and name
  updates    \* bound: how often Ingresses were added or updated

files == <<confd, ssl, dhparam>>
contexts == <<config, mainCfg, asked>>
nginx == <<reloadErr, hup, running>>
vars == <<contexts, files, op, nginx, given, latest, updates>>

Empty == [x \in {} |-> x]

\* What is written replaces what was there.
Over(new, old) ==
  [x \in DOMAIN new \cup DOMAIN old |-> IF x \in DOMAIN new THEN new[x] ELSE old[x]]

Init == /\ config = NewDefaultHTTPContext /\ asked = config
        /\ mainCfg = [health |-> healthStatus, hashSize |-> <<"int", 512>>, dhparam |-> FALSE]
        /\ confd = Empty /\ ssl = Empty /\ dhparam = {}
        /\ op = {} /\ reloadErr = "" /\ hup = FALSE
        /\ running = [confd |-> Empty, ssl |-> Empty, given |-> Empty, latest |-> Empty]
        /\ given = Empty /\ latest = Empty /\ updates = 0

-----------------------------------------------------------------------------
(* External: NGINX takes a configuration in which no two upstreams, and no *)
(* two locations of a server, have one name, in which it takes every text  *)
(* that the templates copy, and whose certificates and dhparam.pem are     *)
(* there and good.                                                         *)

UpstreamsOf(fs) == UNION {{<<n, u.name>> : u \in fs[n].upstreams} : n \in DOMAIN fs}

ServersOf(fs) == UNION {Range(fs[n].servers) : n \in DOMAIN fs}

\* The template leaves out a rewrite and snippets that are empty.
Fits(directive, text) ==
  Takes(directive, text) \/ (directive \in {"rewrite", "server-snippets"} /\ text = EmptyText)

LocationFits(l) ==
  /\ Takes("location", l.path) /\ Fits("rewrite", l.rewrite)
  /\ \A setting \in TextSettings \cap LocationSettings : Fits(setting, l.settings[setting])

ServerFits(s, pems) ==
  /\ \A i, j \in DOMAIN s.locations : s.locations[i].path = s.locations[j].path => i = j
  /\ \A l \in Range(s.locations) : LocationFits(l)
  /\ \A setting \in TextSettings \cap ServerSettings : Fits(setting, s.settings[setting])
  /\ s.pem # NoPem => s.pem \in DOMAIN pems /\ Takes("ssl_certificate", pems[s.pem])

HTTPAccepts(main, fs, pems, dh) ==
  /\ \A u, v \in UpstreamsOf(fs) : u[2] = v[2] => u = v
  /\ \A s \in ServersOf(fs) : ServerFits(s, pems)
  /\ Takes("server_names_hash_max_size", main.hashSize)
  /\ main.dhparam => \E content \in dh : Takes("ssl_dhparam", content)

\* nginx -t, and nginx -s reload, which may fail by itself.
Reload ==
  /\ \/ /\ ~HTTPAccepts(mainCfg', confd', ssl', dhparam')
        /\ reloadErr' = "test" /\ UNCHANGED hup
     \/ /\ HTTPAccepts(mainCfg', confd', ssl', dhparam')
        /\ \/ reloadErr' = "" /\ hup' = TRUE
           \/ reloadErr' = "signal" /\ UNCHANGED hup
  /\ UNCHANGED running

\* External: NGINX does as it was told.  It goes on with what it has if it does not
\* take what is there, as when a file is being written.
Follow ==
  /\ hup /\ hup' = FALSE
  /\ \/ /\ HTTPAccepts(mainCfg, confd, ssl, dhparam)
        /\ running' = [confd |-> confd, ssl |-> ssl, given |-> given, latest |-> latest]
        /\ UNCHANGED reloadErr
     \/ /\ ~HTTPAccepts(mainCfg, confd, ssl, dhparam) \/ op # {}
        /\ reloadErr' = "load" /\ UNCHANGED running
  /\ UNCHANGED <<contexts, files, op, given, latest, updates>>

-----------------------------------------------------------------------------
SecretKeys(ingEx) == {<<ingEx.ing.ns, tls.secret>> : tls \in CompleteTLS(ingEx)}

\* AddOrUpdateIngress takes the lock and writes the certificates.
updateCertificates(name, ingEx) ==
  /\ op = {} /\ op' = {[name |-> name, of |-> ingEx]}
  /\ updates < MaxUpdates /\ updates' = updates + 1
  /\ ssl' = Over(Pems(ingEx), ssl)
  /\ latest' = Over([k \in SecretKeys(ingEx) |-> ingEx.secrets[k[2]]], latest)
  /\ UNCHANGED <<contexts, confd, dhparam, nginx, given>>

WriteConfiguration(o) ==
  /\ op' = {}
  /\ confd' = Over([n \in {o.name} |-> generateNginxIngressCfg(o.of, config)], confd)
  /\ given' = Over([n \in {o.name} |-> [of |-> o.of, context |-> asked]], given)
  /\ UNCHANGED <<mainCfg, asked, ssl, dhparam, latest, updates>>
  /\ Reload

\* A bug: the settings of an Ingress are made in place.
AddOrUpdateIngress_InPlace(o) ==
  WriteConfiguration(o) /\ config' = createIngressConfig(config, o.of.ing.ann)

\* Then it writes the configuration, reloads and returns the lock.
AddOrUpdateIngress(o) == WriteConfiguration(o) /\ UNCHANGED config

\* Only the file goes; its certificates stay.  A file that is not there is
\* logged, and NGINX reloads all the same.
DeleteConfiguration(name) ==
  /\ op = {}
  /\ confd' = Restrict(confd, DOMAIN confd \ {name})
  /\ given' = Restrict(given, DOMAIN given \ {name})
  /\ UNCHANGED <<contexts, ssl, dhparam, op, latest, updates>>
  /\ Reload

\* The main file is written and not loaded.  The new context has no health check.
UpdateMainConfigHTTPContext(context) ==
  /\ op = {}
  /\ config' = context.settings /\ asked' = context.settings
  /\ mainCfg' = [health |-> FALSE, hashSize |-> context.hashSize, dhparam |-> context.dhparam]
  /\ UNCHANGED <<files, op, nginx, given, latest, updates>>

AddOrUpdateDHParam(content) ==
  /\ dhparam' = {content}
  /\ UNCHANGED <<contexts, confd, ssl, op, nginx, given, latest, updates>>

\* A context names dhparam.pem only after AddOrUpdateDHParam has returned its name.
Next ==
  \/ \E name \in Names : \E ingEx \in IngressExs(name) : updateCertificates(name, ingEx)
  \/ \E o \in op : AddOrUpdateIngress(o)
  \/ \E name \in Names : DeleteConfiguration(name)
  \/ \E context \in Contexts : /\ context.dhparam => dhparam # {}
                               /\ UpdateMainConfigHTTPContext(context)
  \/ \E content \in DHParams : AddOrUpdateDHParam(content)
  \/ Follow

Spec == Init /\ [][Next]_vars

-----------------------------------------------------------------------------
(* What callers are relied on for *)

Joined(g, b) == g.of.ing.ns \o dash \o g.of.ing.name \o dash \o b.host \o dash \o b.svc

\* What the names joined with dashes say apart, the Ingresses keep apart: no two
\* of them read alike, and a service is used with one port under a host.
NamesTellApart(gs) ==
  \A m, n \in DOMAIN gs : \A b \in Backends(gs[m].of.ing), c \in Backends(gs[n].of.ing) :
    Joined(gs[m], b) = Joined(gs[n], c) => m = n /\ b = c

\* No rule has a path twice.
PathsDiffer(gs) ==
  \A n \in DOMAIN gs : \A rule \in Range(HTTPRules(gs[n].of.ing)) : \A p, q \in DOMAIN rule.paths :
    pathOrDefault(rule.paths[p].path) = pathOrDefault(rule.paths[q].path) => p = q

SecretsTellApart(secrets) ==
  \A k, l \in DOMAIN secrets : k[1] \o dash \o k[2] = l[1] \o dash \o l[2] => k = l

\* NGINX takes the texts that go from an Ingress and its context to the file as they
\* are.
TextsFit(gs) ==
  \A n \in DOMAIN gs : LET ing == gs[n].of.ing IN
    /\ \A setting \in TextSettings : /\ Fits(setting, gs[n].context[setting])
                                     /\ setting \in DOMAIN ing.ann => Fits(setting, ing.ann[setting])
    /\ \A rule \in Range(HTTPRules(ing)) : \A path \in Range(rule.paths) :
         Takes("location", pathOrDefault(path.path)) /\ Fits("rewrite", Rewrite(ing.ann, path.svc))
    /\ \A backend \in Range(ing.backend) : Fits("rewrite", Rewrite(ing.ann, backend.svc))

\* So it does the contents of the secrets and of dhparam.pem, and the main context.
FilesFit ==
  /\ \A k \in DOMAIN latest : Takes("ssl_certificate", latest[k])
  /\ \A content \in dhparam : Takes("ssl_dhparam", content)
  /\ Takes("server_names_hash_max_size", mainCfg.hashSize)

-----------------------------------------------------------------------------
(* Properties *)

\* What generateNginxIngressCfg makes of Ingresses whose names can be told apart
\* is taken by NGINX, together with all the other Ingresses, unless a text, a
\* secret or a context came with something that NGINX never takes
\* (updateCertificates, createIngressConfig, UpdateMainConfigHTTPContext).
GeneratedHTTPAccepted ==
  NamesTellApart(given) /\ PathsDiffer(given) /\ TextsFit(given) /\ FilesFit =>
    HTTPAccepts(mainCfg, confd, ssl, dhparam)

\* Where a location passes requests to: the servers of the upstream it names.
ProxyPass(location) ==
  UNION {UNION {u.servers : u \in {u \in running.confd[n].upstreams : u.name = location.upstream.name}} :
           n \in DOMAIN running.confd}

\* NGINX takes one server of those with the name of the host, and in it the location
\* of the path; which server that is depends on the order of the files.
ServersNamed(host) == {s \in UNION {{n} \X DOMAIN running.confd[n].servers : n \in DOMAIN running.confd} :
                         running.confd[s[1]].servers[s[2]].name = host}

Requests(host, path) ==
  LET locations == UNION {Range(running.confd[s[1]].servers[s[2]].locations) : s \in ServersNamed(host)}
  IN UNION {ProxyPass(l) : l \in {l \in locations : l.path = path}}

\* As NGINX runs, a request for a path of a rule goes to the endpoints of the
\* service and port the rule names, and to the server that refuses it when there
\* are none, if no other rule of any Ingress is for the host
\* (generateNginxIngressCfg, createUpstream).
PathsReachBackend ==
  NamesTellApart(running.given) =>
    \A n \in DOMAIN running.given : LET ingEx == running.given[n].of IN
      \A r \in DOMAIN HTTPRules(ingEx.ing) : LET rule == HTTPRules(ingEx.ing)[r] IN
        ServersNamed(rule.host) \subseteq {<<n, r>>} =>
          \A p \in DOMAIN rule.paths :
            Requests(rule.host, pathOrDefault(rule.paths[p].path)) = BackendServers(ingEx, rule.paths[p])

\* With a default backend, the requests for a host that no path of its rule takes
\* go to that backend, and so do those for a server that has no rule, if it is the
\* only one of its name (generateNginxIngressCfg, rootLocation).
DefaultBackendTakesRest ==
  NamesTellApart(running.given) =>
    \A n \in DOMAIN running.given : LET ingEx == running.given[n].of IN
      \A i \in DOMAIN ingEx.ing.backend : \A r \in DOMAIN running.confd[n].servers :
        LET host == running.confd[n].servers[r].name IN
        ServersNamed(host) \subseteq {<<n, r>>} =>
          \/ /\ r \in DOMAIN HTTPRules(ingEx.ing)
             /\ \E path \in Range(HTTPRules(ingEx.ing)[r].paths) : pathOrDefault(path.path) = Root
          \/ Requests(host, Root) = BackendServers(ingEx, ingEx.ing.backend[i])

\* A server that NGINX runs with a certificate has the one of the secret its
\* Ingress names, in the newest contents any Ingress came with when it was loaded,
\* whatever was added, updated and deleted in between; and once a reload succeeded
\* NGINX has loaded the newest (updateCertificates, AddOrUpdateCertAndKey, Reload).
CertificatesAreOwn ==
  /\ SecretsTellApart(running.latest) =>
       \A n \in DOMAIN running.given : LET ingEx == running.given[n].of IN
         \A s \in Range(running.confd[n].servers) : s.pem # NoPem =>
           \E tls \in CompleteTLS(ingEx) :
             /\ Covers(tls, s.name)
             /\ running.ssl[s.pem] = running.latest[<<ingEx.ing.ns, tls.secret>>]
  /\ op = {} /\ reloadErr = "" /\ ~hup => running.given = given /\ running.latest = latest

\* The annotations of one Ingress leave the settings of the others alone: a setting
\* of a server or of a location that its Ingress does not annotate has the value of
\* the context that was asked for last when the file was made (createIngressConfig).
SettingsStayApart ==
  \A n \in DOMAIN given : \A s \in Range(confd[n].servers) :
    \A settings \in {s.settings} \cup {l.settings : l \in Range(s.locations)} :
      \A setting \in DOMAIN settings \ DOMAIN given[n].of.ing.ann :
        settings[setting] = given[n].context[setting]

\* The three hsts settings are taken from the annotations together or not at all
\* (createIngressConfig, "skipping annotions for all hsts settings").
HSTSTogether ==
  \A n \in DOMAIN given : \A s \in Range(confd[n].servers) :
    (\E setting \in HSTSSettings \cap DOMAIN given[n].of.ing.ann :
       ~WellFormed(setting, given[n].of.ing.ann[setting])) =>
      \A setting \in HSTSSettings : s.settings[setting] = given[n].context[setting]
=============================================================================
