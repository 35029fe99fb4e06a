------------------------------ MODULE EnvConfig ------------------------------
(***************************************************************************)
(* config.go and the choices of main.go: the settings lbex runs with, from *)
(* its command line and its environment.                                   *)
(*                                                                         *)
(* The name of a flag is the sequence of its words.  args maps the flags   *)
(* given on the command line, env the variables of the environment, to     *)
(* texts.                                                                  *)
(***************************************************************************)
EXTENDS Text

kubeconfig == <<"kubeconfig">>
proxy == <<"proxy">>
version == <<"version">>
healthCheck == <<"health", "check">>
healthPort == <<"health", "port">>

StringFlags == {kubeconfig, proxy, <<"service", "name">>, <<"service", "pool">>}
BoolFlags == {<<"strict", "affinity">>, <<"anti", "affinity">>, version, healthCheck, <<"require", "port">>}
IntFlags == {healthPort}
Flags == StringFlags \cup BoolFlags \cup IntFlags

\* newConfig: the defaults.
newConfig == [f \in Flags |-> IF f \in StringFlags THEN ""
                              ELSE IF f \in IntFlags THEN 7331
                              ELSE f \in {healthCheck, <<"require", "port">>}]

envSupport == Flags \ {version}

\* The capitals and the underscores aside, LBEX_ and the words of the flag.
variableName(f) == <<"LBEX">> \o f

\* What pflag's Set leaves in a flag.  A text that does not parse is an error, and
\* yet sets the flag to its zero value.
boolValue(text) == IsBool(text) /\ BoolOf(text)
intValue(text) == IF IsInt(text) THEN text[2] ELSE 0
Set(f, text) == IF f \in StringFlags THEN text[2]
                ELSE IF f \in BoolFlags THEN boolValue(text) ELSE intValue(text)

Getenv(env, v) == IF v \in DOMAIN env THEN env[v] ELSE EmptyText

alreadySet(args) == {variableName(f) : f \in DOMAIN args \cap envSupport}

\* A bug: variables replace what the command line says.
FromEnv_Always(args, env) == {f \in envSupport : Getenv(env, variableName(f)) # EmptyText}

\* The flags that take their value from the environment.
FromEnv(args, env) ==
  {f \in envSupport : variableName(f) \notin alreadySet(args) /\ Getenv(env, variableName(f)) # EmptyText}

\* flag.Parse, then envParse, whose error main drops.  (A text on the command
\* line that does not parse ends lbex at once: args has none.)
envParse(args, env) ==
  [f \in Flags |-> IF f \in FromEnv(args, env) THEN Set(f, Getenv(env, variableName(f)))
                   ELSE IF f \in DOMAIN args THEN Set(f, args[f]) ELSE newConfig[f]]

\* The one way main tries to get at the cluster.
Access(cfg) == IF cfg[proxy] # "" THEN "proxy"
               ELSE IF cfg[kubeconfig] # "" THEN "kubeconfig" ELSE "in-cluster"
=============================================================================
