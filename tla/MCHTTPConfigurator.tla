------------------------- MODULE MCHTTPConfigurator -------------------------
(***************************************************************************)
(* Three Ingresses, two of one namespace, for HTTPConfigurator.            *)
(***************************************************************************)
EXTENDS HTTPConfigurator

h == <<"h">>
hs == <<"h", "-", "s">>
s == <<"s">>
t == <<"t">>
st == <<"s", "-", "t">>
p80 == <<"8", "0">>
p180 == <<"1", "8", "0">>

Path(path, svc, port) == [path |-> <<"str", path>>, svc |-> svc, port |-> port]
Rule(host, paths) == [host |-> host, http |-> TRUE, paths |-> paths]
NoPaths(host) == [host |-> host, http |-> FALSE, paths |-> <<>>]
ToT == <<[svc |-> t, port |-> p80]>>
TLS(secret, hosts) == [secret |-> secret, hosts |-> hosts]

Secret(version) == [cert |-> version, key |-> version]
MCEndpoints == [k \in {s \o p80, s \o p180, st \o p80, t \o p180} |->
                  IF k = t \o p180 THEN {} ELSE {k}]

Ing(ns, name, rules, backend, tls, ann, secrets) ==
  [ing |-> [ns |-> ns, name |-> name, ann |-> ann, backend |-> backend, rules |-> rules, tls |-> tls],
   secrets |-> secrets, endpoints |-> MCEndpoints]

c == <<"c">>
bc == <<"b", "-", "c">>
OfC(version) == [x \in {c} |-> Secret(version)]

Ann(redirect, hsts, age) ==
  [x \in {"redirect-to-https", "hsts", "hsts-max-age"} |->
     CASE x = "redirect-to-https" -> redirect [] x = "hsts" -> hsts [] OTHER -> age]

True == <<"bool", TRUE>>
Junk == <<"str", "junk">>
Rewritten(ok, svc, path) == [ok |-> ok, svc |-> svc, path |-> <<"str", path>>]

OnServices == [x \in {"websocket", "rewrites"} |->
  IF x = "websocket" THEN {s}
  ELSE <<Rewritten(TRUE, s, "/old"), Rewritten(FALSE, t, ""), Rewritten(TRUE, s, "/new")>>]
Timeout(text) == [x \in {"proxy-read-timeout"} |-> text]

AofX(rules, backend, tls, ann, secrets) == Ing(<<"a">>, <<"x">>, rules, backend, tls, ann, secrets)

\* Paths, hosts and default backends; the names of the third clash, the service of
\* the fourth is used with two ports, and the sixth has a path twice.
Routed ==
  {AofX(rb[1], rb[2], <<>>, OnServices, Empty) : rb \in
     {<<<<Rule(h, <<Path("/a", s, p80), Path("", t, p180)>>), Rule(hs, <<Path("/", s, p180)>>)>>, <<>>>>,
      <<<<Rule(h, <<Path("/a", s, p80)>>), Rule(hs, <<Path("", st, p80)>>), NoPaths(<<"z">>)>>, ToT>>,
      <<<<Rule(h, <<Path("/", st, p80)>>), Rule(hs, <<Path("/", t, p80)>>)>>, <<>>>>,
      <<<<Rule(h, <<Path("/a", s, p80), Path("/b", s, p180)>>)>>, <<>>>>,
      <<<<>>, ToT>>,
      <<<<Rule(h, <<Path("", s, p80), Path("/", t, p80)>>)>>, <<>>>>,
      <<<<NoPaths(h)>>, ToT>>}}

OnH == <<Rule(h, <<Path("/", s, p80)>>)>>

\* Certificates and annotations; a secret without its key, one whose key is not that
\* of its certificate, two for one host, and a timeout that is none.
Secured ==
  {AofX(OnH, <<>>, <<TLS(c, {h})>>, ann, OfC(version)) : version \in {"a1", "a2"},
     ann \in {Ann(True, True, <<"int", 5>>), Ann(Junk, True, Junk)}}
  \cup {AofX(OnH, <<>>, <<TLS(c, {h})>>, Ann(True, Junk, <<"int", 5>>), [x \in {c} |-> [cert |-> "a1"]]),
        AofX(OnH, <<>>, <<TLS(c, {h})>>, Empty, [x \in {c} |-> [cert |-> "a1", key |-> "a2"]]),
        AofX(OnH, <<>>, <<>>, Timeout(Junk), Empty),
        AofX(<<>>, ToT, <<TLS(c, {}), TLS(bc, {emptyHost})>>, Empty,
             [x \in {c, bc} |-> Secret(IF x = c THEN "a1" ELSE "abc")])}

\* Its upstream has the name that one of a-x has.
Clashing == Ing(<<"a">>, <<"x", "-", "h">>, <<Rule(s, <<Path("/", t, p80)>>)>>, <<>>, <<>>, Empty, Empty)

MCIngressExs(name) ==
  CASE name = "a-x" -> Routed \cup Secured
    [] name = "a-y" -> {Ing(<<"a">>, <<"y">>, <<Rule(hs, <<Path("/", s, p80)>>)>>, <<>>, <<TLS(c, {hs})>>,
                            Timeout(<<"str", "9s">>), OfC(version)) : version \in {"a1", "a2"}}
    [] OTHER -> {Ing(ns, <<"x">>, OnH, <<>>, <<TLS(c, {h})>>, Empty, OfC("b1")) :
                   ns \in {<<"b">>, <<"a", "-", "b">>}} \cup {Clashing}

MCNames == {"a-x", "a-y", "third"}

MCContexts ==
  {[settings |-> NewDefaultHTTPContext, hashSize |-> EmptyText, dhparam |-> FALSE],
   [settings |-> [NewDefaultHTTPContext EXCEPT !["proxy-read-timeout"] = <<"str", "5s">>,
                                               !["hsts-include-subdomains"] = True],
    hashSize |-> <<"int", 512>>, dhparam |-> TRUE]}

MCDHParams == {<<"str", "dh">>, Junk}

MCTakes(directive, text) ==
  IF directive = "ssl_certificate" THEN text.cert = text.key ELSE text \notin {EmptyText, Junk}
=============================================================================
