-------------------------- MODULE MCNginxController --------------------------
(* Small clusters and a few command lines for NginxController.              *)
EXTENDS NginxController, TLC

\* A server and its upstream for each port.
Stream(upstreams, host, listen) ==
  [resolver |-> "",
   upstreams |-> {[name |-> u, algorithm |-> "", method |-> "", servers |-> {<<host, 53>>}] : u \in upstreams},
   servers |-> {[port |-> listen[u], udp |-> FALSE, passthrough |-> FALSE, proxyPass |-> u] : u \in upstreams}]

a == <<"a">>
b == <<"b">>

\* One server, or two, of which NGINX may find one.
Single(n, host, port) == Stream({n}, host, n :> port)
Pair(host, port) == Stream({<<"b", "x">>, <<"b", "y">>}, host, <<"b", "x">> :> port @@ <<"b", "y">> :> 82)

\* b asks for the port of a, which "nginx -t" rejects when both are there, or
\* for another.
TwoNames == {a, b}
TwoConfigs(n) == IF n = a THEN {Single(a, "pod1", 80)} ELSE {Single(b, "pod2", 80), Single(b, "pod2", 81)}

\* A service whose upstream may be without a host, which "nginx -t" rejects, and
\* one that may ask for the port of the health check, which it does not.
OneName == {b}
OneConfigs(n) == {Pair("pod1", 80), Single(b, "", 80), Single(b, "pod1", 7331)}

\* lbex in a container of the cluster; as the unit file starts it, with a
\* variable besides that it has to ignore; with a port that is no number; asked
\* for its version; and by a proxy that is not there.
OnKubeconfig == kubeconfig :> <<"str", "/root/.kube/config">>
MCSettings ==
  {[args |-> <<>>, env |-> <<>>, container |-> TRUE],
   [args |-> OnKubeconfig @@ healthPort :> <<"int", 7331>>,
    env |-> variableName(healthPort) :> <<"int", 80>>, container |-> FALSE],
   [args |-> OnKubeconfig, env |-> variableName(healthPort) :> <<"str", "any">>, container |-> FALSE],
   [args |-> version :> <<"bool", TRUE>>, env |-> <<>>, container |-> TRUE],
   [args |-> <<>>, env |-> variableName(proxy) :> <<"str", "http://localhost:8001">>, container |-> TRUE]}
=============================================================================
