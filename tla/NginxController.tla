--------------------------- MODULE NginxController ---------------------------
(***************************************************************************)
(* The lbex process and its NGINX (main.go, nginx/nginx.go, the file       *)
(* writing of nginx/stream.go): how they start, crash and start again, and *)
(* what is on disk and in NGINX while lbex writes files and NGINX, which   *)
(* takes its time to follow a reload, reads them.  Configurator has all of *)
(* this in one step.                                                       *)
(*                                                                         *)
(* What a service calls for is a stream configuration or nothing; the      *)
(* services that are due for a sync are a set, as PendingSet justifies.    *)
(* The supervisor starts lbex again whenever it ends: the kubelet in a new *)
(* container, the systemd unit of bin/gce-up.sh where the files of earlier *)
(* runs are.  NGINX is external, modelled by how lbex uses it.             *)
(***************************************************************************)
EXTENDS StreamConfig, EnvConfig

CONSTANTS Settings,      \* the ways lbex is deployed: [args, env, container], the command
                         \* line, the environment, and whether each start is in a new container
          Usable,        \* the ways to reach the cluster that work
          Names,         \* the config names of the services
          Configs(_),    \* the stream configurations a service may call for
          MaxFaults      \* bound on the crashes of lbex and NGINX

\* pflag ends lbex on a command line with any other flag.
ASSUME KnownFlags == \A s \in Settings : DOMAIN s.args \subseteq Flags /\ s.container \in BOOLEAN

\* A config name is the namespace and the name of a service: it has words.
ASSUME NamesAssumption == <<>> \notin Names
ASSUME FaultsAssumption == MaxFaults \in Nat

VARIABLES settings, cluster,   \* cluster: what the services call for, by name
          pc, cfg, job, todo,  \* lbex: its next step, its settings, the sync it is at,
                               \* the syncs that are due
          main, confd,         \* nginx.conf and the stream files of conf.d
          up, loaded,          \* NGINX: it runs; what it serves from
          hup, reading,        \* it was told to reload; what it has read so far
          faults,
          found                \* history: of the files this lbex found when it started,
                               \* those of services it has not synced since

lbexVars == <<pc, cfg, job, todo>>
disk == <<main, confd>>
nginxVars == <<up, loaded, hup, reading>>
vars == <<settings, cluster, lbexVars, disk, nginxVars, faults, found>>

Put(fs, n, content) == [m \in DOMAIN fs \cup {n} |-> IF m = n THEN content ELSE fs[m]]
Drop(fs, n) == [m \in DOMAIN fs \ {n} |-> fs[m]]

-----------------------------------------------------------------------------
(* Files *)

\* NewNginxController for StreamCfg: the stream context, and the health check.
mainCfg == [complete |-> TRUE, health |-> cfg[healthCheck], port |-> cfg[healthPort]]
TornMain == [complete |-> FALSE, health |-> FALSE, port |-> 0]

\* os.Create leaves an empty file, Execute then writes it piece by piece, the
\* upstreams before the servers.  Cut within a block it is rejected, like
\* BrokenFile.  Cut between blocks it has some of the servers; while it has none
\* it is rejected or serves nothing, like BrokenFile or EmptyFile.
EmptyFile == [resolver |-> "", upstreams |-> {}, servers |-> {}]
BrokenFile == [EmptyFile EXCEPT !.upstreams =
                 {[name |-> <<>>, algorithm |-> "", method |-> "", servers |-> {}]}]
Pieces(config) ==
  {BrokenFile} \cup {[config EXCEPT !.servers = some] : some \in SUBSET config.servers \ {{}, config.servers}}

(* External: what NGINX makes of the files. *)

\* "nginx -t" does not mind addresses that are in use.
Accepts(m, fs) == /\ m.complete /\ (m.health => ValidPort(m.port))
                  /\ NginxAccepts(fs)

\* To bind them, the health check and the services need different ports.
Binds(m, fs) == m.health => \A n \in DOMAIN fs : \A s \in fs[n].servers : s.udp \/ s.port # m.port

Loads(m, fs) == Accepts(m, fs) /\ Binds(m, fs)

\* The files NGINX serves anything from.
Serving(fs) == [n \in {n \in DOMAIN fs : fs[n].servers # {}} |-> fs[n]]

Stopped == [main |-> TornMain, files |-> <<>>]
NotReading == [on |-> FALSE, main |-> TornMain, left |-> {}, got |-> <<>>]
NoJob == [name |-> <<>>, config |-> EmptyFile]

-----------------------------------------------------------------------------
Init ==
  /\ settings \in Settings
  /\ cluster = <<>>
  /\ pc = "ended" /\ cfg = newConfig /\ job = NoJob /\ todo = {}
  /\ main = TornMain /\ confd = <<>>
  /\ up = FALSE /\ loaded = Stopped /\ hup = FALSE /\ reading = NotReading
  /\ faults = 0 /\ found = <<>>

\* lbex ends: what it knew is gone, what is on disk is not.
Ended == pc' = "ended" /\ cfg' = newConfig /\ job' = NoJob /\ todo' = {}

-----------------------------------------------------------------------------
(* lbex starts *)

\* A bug: the files of an earlier run come along into a new container.
Restart_KeepsFiles ==
  /\ pc = "ended" /\ pc' = "main"
  /\ UNCHANGED <<cfg, job, todo, disk, nginxVars>>

\* The image has an empty conf.d.  Elsewhere the files of earlier runs are still
\* there: systemd hands the "*" of the unit's "rm --force" on as it is, and no
\* file has that name.  (nginx.conf is written anew before it is read.)
Restart ==
  /\ pc = "ended" /\ pc' = "main"
  /\ confd' = IF settings.container THEN <<>> ELSE confd
  /\ UNCHANGED <<cfg, job, todo, main, nginxVars>>

\* main ends after printing the version, and panics if its one way to reach
\* the cluster does not work.
Main ==
  /\ pc = "main"
  /\ LET parsed == envParse(settings.args, settings.env)
     IN IF parsed[version] \/ Access(parsed) \notin Usable THEN Ended
        ELSE pc' = "create" /\ cfg' = parsed /\ UNCHANGED <<job, todo>>
  /\ UNCHANGED <<disk, nginxVars>>

\* UpdateMainConfigFile
CreateMain ==
  /\ pc = "create" /\ pc' = "execute"
  /\ main' = TornMain
  /\ UNCHANGED <<cfg, job, todo, confd, nginxVars>>

ExecuteMain ==
  /\ pc = "execute" /\ pc' = "start"
  /\ main' = mainCfg
  /\ UNCHANGED <<cfg, job, todo, confd, nginxVars>>

\* Start: NGINX does not start from files it cannot load, or when another one
\* holds its ports, and then lbex ends.
Start ==
  /\ pc = "start"
  /\ IF ~up /\ Loads(main, confd)
     THEN /\ pc' = "run" /\ UNCHANGED <<cfg, job, todo>>
          /\ up' = TRUE /\ loaded' = [main |-> main, files |-> Serving(confd)]
          /\ UNCHANGED <<hup, reading>>
     ELSE Ended /\ UNCHANGED nginxVars
  /\ UNCHANGED disk

\* run: the informer reports the services there are.
Run ==
  /\ pc = "run" /\ pc' = "idle"
  /\ todo' = DOMAIN cluster
  /\ UNCHANGED <<cfg, job, disk, nginxVars>>

-----------------------------------------------------------------------------
(* lbex syncs a service *)

\* AddOrUpdateService of a service that is there, DeleteConfiguration of one
\* that is not.
Sync(n) ==
  /\ pc = "idle" /\ n \in todo
  /\ todo' = todo \ {n}
  /\ IF n \in DOMAIN cluster THEN pc' = "open" /\ job' = [name |-> n, config |-> cluster[n]]
     ELSE pc' = "remove" /\ job' = [name |-> n, config |-> EmptyFile]
  /\ UNCHANGED <<cfg, disk, nginxVars>>

\* templateStream
OpenFile ==
  /\ pc = "open" /\ pc' = "write"
  /\ confd' = Put(confd, job.name, EmptyFile)
  /\ UNCHANGED <<cfg, job, todo, main, nginxVars>>

WriteSome ==
  /\ pc = "write" /\ confd[job.name] \in {EmptyFile, BrokenFile}
  /\ \E piece \in Pieces(job.config) \ {confd[job.name]} : confd' = Put(confd, job.name, piece)
  /\ UNCHANGED <<pc, cfg, job, todo, main, nginxVars>>

WriteRest ==
  /\ pc = "write" /\ pc' = "test"
  /\ confd' = Put(confd, job.name, job.config)
  /\ UNCHANGED <<cfg, job, todo, main, nginxVars>>

DeleteStreamConfiguration ==
  /\ pc = "remove" /\ pc' = "test"
  /\ confd' = Drop(confd, job.name)
  /\ UNCHANGED <<cfg, job, todo, main, nginxVars>>

\* Reload: "nginx -t"; an error is logged.
Test ==
  /\ pc = "test"
  /\ IF Accepts(main, confd) THEN pc' = "signal" /\ job' = job ELSE pc' = "idle" /\ job' = NoJob
  /\ UNCHANGED <<cfg, todo, disk, nginxVars>>

\* A bug: a signal is not sent while NGINX is still at the last one.
Signal_Skipped ==
  /\ pc = "signal" /\ pc' = "idle" /\ job' = NoJob
  /\ hup' = (hup \/ (up /\ ~reading.on))
  /\ UNCHANGED <<cfg, todo, disk, up, loaded, reading>>

\* A bug: a signal waits for an NGINX that is not there.
Signal_Always ==
  /\ pc = "signal" /\ pc' = "idle" /\ job' = NoJob
  /\ hup' = TRUE
  /\ UNCHANGED <<cfg, todo, disk, up, loaded, reading>>

\* Reload: "nginx -s reload" tells the NGINX that runs, and does not wait for
\* it; if there is none that is an error, which is logged.
Signal ==
  /\ pc = "signal" /\ pc' = "idle" /\ job' = NoJob
  /\ hup' = up
  /\ UNCHANGED <<cfg, todo, disk, up, loaded, reading>>

LbexStep ==
  /\ \/ Main \/ CreateMain \/ ExecuteMain \/ Start \/ Run
     \/ (\E n \in Names : Sync(n)) \/ OpenFile \/ WriteSome \/ WriteRest
     \/ DeleteStreamConfiguration \/ Test \/ Signal
  /\ found' = Drop(found, job'.name)
  /\ UNCHANGED <<settings, cluster, faults>>

-----------------------------------------------------------------------------
(* External: the NGINX master follows a reload.  It reads one file after the *)
(* other, and serves from what it has read if it can.                        *)

BeginLoad ==
  /\ up /\ hup /\ ~reading.on
  /\ hup' = FALSE
  /\ reading' = [on |-> TRUE, main |-> main, left |-> DOMAIN confd, got |-> <<>>]
  /\ UNCHANGED loaded

\* The files are read in a fixed order.  One that has gone since conf.d was
\* listed fails the load.
ReadFile ==
  /\ reading.on /\ reading.left # {}
  /\ LET n == CHOOSE n \in reading.left : TRUE
     IN reading' = IF n \in DOMAIN confd
                   THEN [on |-> TRUE, main |-> reading.main,
                         left |-> reading.left \ {n}, got |-> Put(reading.got, n, confd[n])]
                   ELSE NotReading
  /\ UNCHANGED <<hup, loaded>>

EndLoad ==
  /\ reading.on /\ reading.left = {}
  /\ reading' = NotReading
  /\ loaded' = IF Loads(reading.main, reading.got)
               THEN [main |-> reading.main, files |-> Serving(reading.got)] ELSE loaded
  /\ UNCHANGED hup

MasterStep ==
  /\ BeginLoad \/ ReadFile \/ EndLoad
  /\ UNCHANGED <<settings, cluster, lbexVars, disk, up, faults, found>>

NginxGone == up' = FALSE /\ loaded' = Stopped /\ hup' = FALSE /\ reading' = NotReading

-----------------------------------------------------------------------------
(* Faults, and the cluster *)

\* lbex ends at any step.  A container or a systemd unit takes NGINX along, by
\* itself NGINX, a daemon, may stay.  (It is followed only while it holds the
\* health check's port.)
Crash ==
  /\ faults < MaxFaults /\ faults' = faults + 1
  /\ pc # "ended" /\ Ended
  /\ \/ NginxGone
     \/ ~settings.container /\ up /\ loaded.main.health /\ UNCHANGED nginxVars
  /\ UNCHANGED <<settings, cluster, disk, found>>

NginxDies ==
  /\ faults < MaxFaults /\ faults' = faults + 1
  /\ up /\ NginxGone
  /\ UNCHANGED <<settings, cluster, lbexVars, disk, found>>

\* A running lbex hears of the change, one that is down or starting does not.
ClusterChange(n) ==
  /\ cluster' \in {Put(cluster, n, config) : config \in Configs(n)} \cup {Drop(cluster, n)}
  /\ cluster' # cluster
  /\ todo' = IF pc \in {"ended", "main", "create", "execute", "start", "run"} THEN todo ELSE todo \cup {n}
  /\ UNCHANGED <<settings, pc, cfg, job, disk, nginxVars, faults, found>>

RestartStep == Restart /\ found' = confd' /\ UNCHANGED <<settings, cluster, faults>>

Next == \/ RestartStep \/ LbexStep \/ MasterStep
        \/ Crash \/ NginxDies
        \/ \E n \in Names : ClusterChange(n)

\* While lbex or NGINX have something to do, or lbex is to be started again,
\* one of them goes on; nothing need fail and the cluster need not change.
Fairness == WF_vars(RestartStep \/ LbexStep \/ MasterStep)

Safety == Init /\ [][Next]_vars
Spec == Safety /\ Fairness

-----------------------------------------------------------------------------
TypeOK ==
  /\ settings \in Settings
  /\ DOMAIN cluster \subseteq Names /\ \A n \in DOMAIN cluster : cluster[n] \in Configs(n)
  /\ pc \in {"ended", "main", "create", "execute", "start", "run", "idle",
             "open", "write", "remove", "test", "signal"}
  /\ (job.name \in Names) = (pc \in {"open", "write", "remove", "test", "signal"})
  /\ todo \subseteq Names
  /\ DOMAIN confd \subseteq Names
  /\ loaded.main.complete = up
  /\ (hup \/ reading.on) => up
  /\ faults \in 0..MaxFaults

\* lbex has synced everything and NGINX has followed.
AtRest == pc = "idle" /\ todo = {} /\ up /\ ~hup /\ ~reading.on

\* What is to be served: what the services call for, and outside of a container
\* what is left of services that were deleted while no lbex was there to hear.
Wanted ==
  LET left == IF settings.container THEN <<>> ELSE found
  IN [n \in DOMAIN cluster \cup DOMAIN left |-> IF n \in DOMAIN cluster THEN cluster[n] ELSE left[n]]

ServesWanted == loaded = [main |-> mainCfg, files |-> Serving(Wanted)]

\* However lbex's writes fall between the reads of an NGINX that follows an
\* earlier reload, and wherever a crash has left the files: at rest, NGINX
\* serves in a container from exactly the files the services call for, if it
\* can load these at all.  Elsewhere nothing of a service that is there is cut
\* short or out of date, and of other services there is no more than what lbex
\* found on disk when it started and has not been told of since.
SettledServesCluster == AtRest /\ Loads(mainCfg, Wanted) => ServesWanted

CanStart(c) == ~c[version] /\ Access(c) \in Usable /\ (c[healthCheck] => ValidPort(c[healthPort]))

\* With the cluster at rest lbex gets there, after however many restarts,
\* unless NGINX died under a running lbex, which does not start it again, or
\* has outlived lbex, which then cannot start.  Outside of a container it also
\* needs files that NGINX can start from: those of earlier runs are there before
\* lbex has written any, and lbex ends if they are cut short or rejected.
Recovers ==
  /\ CanStart(envParse(settings.args, settings.env))
  /\ <>[][FALSE]_cluster
  /\ <>[](/\ up = (pc \in {"run", "idle", "open", "write", "remove", "test", "signal"})
          /\ pc = "start" /\ ~settings.container => Loads(main, confd))
  => <>[](Loads(mainCfg, Wanted) => ServesWanted)

SomeTexts == {<<"int", 1>>, <<"bool", FALSE>>, <<"str", "junk">>}

\* README: "Any configuration value set on the command line takes precedence
\* over the same value from the environment": no text in the variable of a flag
\* that was given changes any setting.
CommandLineWins ==
  pc = "create" => \A f \in DOMAIN settings.args, text \in SomeTexts :
    envParse(settings.args, Put(settings.env, variableName(f), text)) = cfg
=============================================================================
