------------------------ MODULE NginxControllerProofs ------------------------
(***************************************************************************)
(* Proofs about NginxController, for any services, stream configurations,  *)
(* settings and number of faults.  SettledServesCluster is not inductive:  *)
(* it speaks of states at rest, and what NGINX serves is settled long      *)
(* before.  The invariant follows a configuration on its way: FoundFiles   *)
(* and OnDisk say which files are as the cluster calls for and which are   *)
(* left of an earlier run, InNginx that NGINX has the files that are on    *)
(* disk, is reading them, or is told to.                                   *)
(***************************************************************************)
EXTENDS NginxController, TLAPS

Fn(f) == f = [x \in DOMAIN f |-> f[x]]

Shape ==
  /\ Fn(cluster) /\ DOMAIN cluster \subseteq Names
  /\ Fn(confd) /\ DOMAIN confd \subseteq Names
  /\ todo \subseteq Names
  /\ pc \in {"open", "write", "remove", "test", "signal"} => job.name \in Names
  /\ up \in BOOLEAN /\ hup \in BOOLEAN /\ reading.on \in BOOLEAN
  /\ Fn(reading.got)
  /\ hup \/ reading.on => up

\* What lbex found is of services it is not at, and in a container is nothing.
FoundFiles ==
  /\ Fn(found) /\ DOMAIN found \subseteq Names
  /\ job.name \notin DOMAIN found
  /\ pc = "ended" => job = NoJob
  /\ settings.container => DOMAIN found = {}

\* The file of a service is as the cluster calls for; if the service is not there,
\* it is the one lbex found.
Agrees(n) ==
  /\ n \in DOMAIN confd <=> n \in DOMAIN cluster \/ n \in DOMAIN found
  /\ n \in DOMAIN cluster => confd[n] = cluster[n]
  /\ n \notin DOMAIN cluster /\ n \in DOMAIN found => confd[n] = found[n]

\* The sync that is under way will make it so.
JobIsCurrent ==
  IF pc = "remove" THEN job.name \notin DOMAIN cluster
  ELSE job.name \in DOMAIN cluster /\ job.config = cluster[job.name]

OnDisk ==
  /\ pc \in {"start", "run", "idle", "open", "write", "remove", "test", "signal"} => main = mainCfg
  /\ pc \in {"main", "create", "execute", "start", "run"} => confd = found
  /\ pc \in {"idle", "test", "signal"} => \A n \in Names \ todo : Agrees(n)
  /\ pc \in {"open", "write", "remove"} =>
       \A n \in Names \ todo : IF n = job.name THEN JobIsCurrent ELSE Agrees(n)

\* What NGINX has read is still what is on disk, and the rest is to be read.
CatchingUp ==
  /\ reading.on /\ reading.main = main
  /\ reading.left \cup DOMAIN reading.got = DOMAIN confd
  /\ \A n \in DOMAIN reading.got : reading.got[n] = confd[n]

Current == ~reading.on /\ loaded = [main |-> main, files |-> Serving(confd)]

InNginx ==
  up /\ pc \in {"run", "idle", "open", "remove"} /\ Loads(main, confd) =>
    hup \/ CatchingUp \/ Current

IInv == Shape /\ FoundFiles /\ OnDisk /\ InNginx

-----------------------------------------------------------------------------
(* Files by name *)

\* No files.
LEMMA EmptyFacts ==
  ASSUME NEW f, f = <<>>
  PROVE  Fn(f) /\ DOMAIN f = {}
BY SMTT(30) DEF Fn

\* Two sets of files are the same if they have the same files.
LEMMA SameFiles ==
  ASSUME NEW f, NEW g, Fn(f), Fn(g), DOMAIN f = DOMAIN g, \A n \in DOMAIN f : f[n] = g[n]
  PROVE  f = g
BY Zenon DEF Fn

\* A file that is not there can be removed.
LEMMA DropNone ==
  ASSUME NEW f, Fn(f), NEW n, n \notin DOMAIN f
  PROVE  Drop(f, n) = f
<1>1. DOMAIN f \ {n} = DOMAIN f
  BY Zenon
<1>2. Drop(f, n) = [m \in DOMAIN f |-> f[m]]
  BY Zenon, <1>1 DEF Drop
<1> QED BY Zenon, <1>2 DEF Fn

\* The others stay as they are.
LEMMA DropFacts ==
  ASSUME NEW f, NEW n
  PROVE  /\ Fn(Drop(f, n)) /\ DOMAIN Drop(f, n) = DOMAIN f \ {n}
         /\ \A m \in DOMAIN f \ {n} : Drop(f, n)[m] = f[m]
<1>1. Fn(Drop(f, n))
  BY Zenon DEF Drop, Fn
<1> QED BY Zenon, <1>1 DEF Drop

-----------------------------------------------------------------------------
(* Shape *)

\* Nothing has started yet.
LEMMA InitIInv == Init => IInv
<1> SUFFICES ASSUME Init
             PROVE  IInv
  OBVIOUS
<1>1. Shape
  BY Zenon, EmptyFacts DEF Init, Shape, NotReading
<1>2. FoundFiles
  BY Zenon, EmptyFacts DEF Init, FoundFiles
<1>3. OnDisk /\ InNginx
  BY Zenon DEF Init, OnDisk, InNginx
<1> QED
  BY Zenon, <1>1, <1>2, <1>3 DEF IInv

\* Every step keeps the files, the jobs and the reading in shape.
LEMMA ShapeHolds == IInv /\ [Next]_vars => Shape'
<1> SUFFICES ASSUME Shape, [Next]_vars
             PROVE  Shape'
  BY Zenon DEF IInv
<1> USE DEF Shape
<1>1. CASE RestartStep
  BY Zenon, <1>1, EmptyFacts DEF RestartStep, Restart, nginxVars
<1>2. CASE LbexStep
  <2>1. CASE Main \/ CreateMain \/ ExecuteMain \/ Run
    BY SMTT(30), <1>2, <2>1 DEF LbexStep, Main, CreateMain, ExecuteMain, Run, Ended, disk, nginxVars
  <2>6. CASE Start
    BY Zenon, <1>2, <2>6 DEF LbexStep, Start, Ended, disk, nginxVars
  <2>2. ASSUME NEW n \in Names, Sync(n)
        PROVE  Shape'
    BY SMTT(30), <1>2, <2>2 DEF LbexStep, Sync, disk, nginxVars
  <2>3. CASE OpenFile \/ WriteSome \/ WriteRest
    <3>1. PICK content : confd' = Put(confd, job.name, content)
      BY Zenon, <2>3 DEF OpenFile, WriteSome, WriteRest
    <3>2. Fn(confd') /\ DOMAIN confd' = DOMAIN confd \cup {job.name}
      BY Zenon, <3>1 DEF Put, Fn
    <3> QED
      BY SMTT(30), <1>2, <2>3, <3>2 DEF LbexStep, OpenFile, WriteSome, WriteRest, nginxVars
  <2>4. CASE DeleteStreamConfiguration
    <3>1. Fn(confd') /\ DOMAIN confd' = DOMAIN confd \ {job.name}
      BY Zenon, <2>4 DEF DeleteStreamConfiguration, Drop, Fn
    <3> QED
      BY Zenon, <1>2, <2>4, <3>1 DEF LbexStep, DeleteStreamConfiguration, nginxVars
  <2>5. CASE Test \/ Signal
    BY SMTT(30), <1>2, <2>5 DEF LbexStep, Test, Signal, disk, nginxVars
  <2> QED
    BY Zenon, <1>2, <2>1, <2>2, <2>3, <2>4, <2>5, <2>6 DEF LbexStep
<1>3. CASE MasterStep
  <2>1. CASE BeginLoad
    BY Zenon, <1>3, <2>1, EmptyFacts DEF MasterStep, BeginLoad, lbexVars, disk
  <2>2. CASE ReadFile
    <3>1. PICK n : reading' = IF n \in DOMAIN confd
                              THEN [on |-> TRUE, main |-> reading.main, left |-> reading.left \ {n},
                                    got |-> Put(reading.got, n, confd[n])]
                              ELSE NotReading
      BY Zenon, <2>2 DEF ReadFile
    <3>2. Fn(Put(reading.got, n, confd[n]))
      BY Zenon DEF Put, Fn
    <3> QED
      BY SMTT(30), <1>3, <2>2, <3>1, <3>2, EmptyFacts DEF MasterStep, ReadFile, NotReading, lbexVars, disk
  <2>3. CASE EndLoad
    BY Zenon, <1>3, <2>3, EmptyFacts DEF MasterStep, EndLoad, NotReading, lbexVars, disk
  <2> QED
    BY Zenon, <1>3, <2>1, <2>2, <2>3 DEF MasterStep
<1>4. CASE Crash
  <2>1. CASE NginxGone
    BY Zenon, <1>4, <2>1, EmptyFacts DEF Crash, Ended, NginxGone, NotReading, disk
  <2>2. CASE UNCHANGED nginxVars
    BY Zenon, <1>4, <2>2 DEF Crash, Ended, disk, nginxVars
  <2> QED
    BY Zenon, <1>4, <2>1, <2>2 DEF Crash
<1>5. CASE NginxDies
  BY Zenon, <1>5, EmptyFacts DEF NginxDies, NginxGone, NotReading, disk, lbexVars
<1>6. ASSUME NEW n \in Names, ClusterChange(n)
      PROVE  Shape'
  <2>1. (\E config : cluster' = Put(cluster, n, config)) \/ cluster' = Drop(cluster, n)
    BY Zenon, <1>6 DEF ClusterChange
  <2>2. Fn(cluster') /\ DOMAIN cluster' \subseteq Names
    BY Zenon, <2>1 DEF Put, Drop, Fn
  <2> QED
    BY Zenon, <1>6, <2>2 DEF ClusterChange, disk, nginxVars
<1>7. CASE UNCHANGED vars
  BY Zenon, <1>7 DEF vars, lbexVars, disk, nginxVars
<1> QED
  BY Zenon, <1>1, <1>2, <1>3, <1>4, <1>5, <1>6, <1>7 DEF Next

-----------------------------------------------------------------------------
(* The files lbex found *)

\* No service is at hand when lbex is at none.
LEMMA NoJobName == NoJob.name \notin Names
<1>1. NoJob.name = <<>>
  BY Zenon DEF NoJob
<1> QED BY SMT, <1>1, NamesAssumption

\* They are taken off the list by the sync of their service, and by nothing else.
LEMMA FoundStays ==
  ASSUME FoundFiles, LbexStep, job' \in {job, NoJob}
  PROVE  found' = found
<1>1. job'.name \notin DOMAIN found
  BY Zenon, NoJobName DEF FoundFiles
<1> QED
  BY Zenon, <1>1, DropNone DEF FoundFiles, LbexStep

\* Restart lists what is there, and a sync takes its own service off.
LEMMA FoundHolds == IInv /\ [Next]_vars => FoundFiles'
<1> SUFFICES ASSUME Shape, FoundFiles, [Next]_vars
             PROVE  FoundFiles'
  BY Zenon DEF IInv
<1> USE DEF FoundFiles
<1>1. CASE RestartStep
  <2>1. found' = confd' /\ job' = job /\ settings' = settings
    BY Zenon, <1>1 DEF RestartStep, Restart
  <2>2. job.name \notin Names
    BY Zenon, <1>1, NoJobName DEF RestartStep, Restart
  <2> QED
    BY Zenon, <1>1, <2>1, <2>2, EmptyFacts DEF RestartStep, Restart, Shape
<1>2. CASE LbexStep
  <2>1. pc' = "ended" => job' = NoJob
    <3>1. CASE Main \/ Start
      BY Zenon, <3>1 DEF Main, Start, Ended
    <3>2. CASE CreateMain \/ ExecuteMain \/ Run \/ OpenFile
      BY Zenon, <3>2 DEF CreateMain, ExecuteMain, Run, OpenFile
    <3>3. ASSUME NEW n \in Names, Sync(n)
          PROVE  pc' # "ended"
      BY SMTT(30), <3>3 DEF Sync
    <3>4. CASE WriteSome \/ WriteRest \/ DeleteStreamConfiguration \/ Test \/ Signal
      BY Zenon, <3>4 DEF WriteSome, WriteRest, DeleteStreamConfiguration, Test, Signal
    <3> QED BY Zenon, <1>2, <3>1, <3>2, <3>3, <3>4 DEF LbexStep
  <2>2. found' = Drop(found, job'.name) /\ settings' = settings
    BY Zenon, <1>2 DEF LbexStep
  <2>3. Fn(found') /\ DOMAIN found' = DOMAIN found \ {job'.name}
    BY Zenon, <2>2 DEF Drop, Fn
  <2> QED
    BY Zenon, <2>1, <2>2, <2>3
<1>3. CASE MasterStep \/ NginxDies
  BY Zenon, <1>3 DEF MasterStep, NginxDies, lbexVars
<1>4. CASE Crash
  BY Zenon, <1>4, NoJobName DEF Crash, Ended
<1>5. CASE \E n \in Names : ClusterChange(n)
  BY Zenon, <1>5 DEF ClusterChange
<1>6. CASE UNCHANGED vars
  BY Zenon, <1>6 DEF vars, lbexVars
<1> QED
  BY Zenon, <1>1, <1>2, <1>3, <1>4, <1>5, <1>6 DEF Next

-----------------------------------------------------------------------------
(* OnDisk *)

\* A sync makes the file of its service agree with the cluster, and leaves the
\* others alone; a change of the cluster makes a sync due.
LEMMA OnDiskHolds == IInv /\ [Next]_vars => OnDisk'
<1> SUFFICES ASSUME Shape, FoundFiles, OnDisk, [Next]_vars
             PROVE  OnDisk'
  BY Zenon DEF IInv
<1>0. ASSUME UNCHANGED <<cluster, lbexVars, disk, found>>
      PROVE  OnDisk'
  BY Zenon, <1>0 DEF OnDisk, Agrees, JobIsCurrent, mainCfg, lbexVars, disk
<1>1. CASE RestartStep
  BY Zenon, <1>1 DEF RestartStep, Restart, OnDisk
<1>2. CASE LbexStep
  <2> UNCHANGED cluster
    BY Zenon, <1>2 DEF LbexStep
  <2>0. ASSUME job' \in {job, NoJob}
        PROVE  found' = found
    BY Zenon, <1>2, <2>0, FoundStays
  <2>1. CASE Main
    <3>1. CASE pc' = "ended"
      BY Zenon, <3>1 DEF OnDisk
    <3>2. CASE pc' # "ended"
      BY Zenon, <2>0, <2>1, <3>2 DEF Main, Ended, OnDisk, disk
    <3> QED BY Zenon, <3>1, <3>2
  <2>2. CASE CreateMain
    BY Zenon, <2>0, <2>2 DEF CreateMain, OnDisk
  <2>3. CASE ExecuteMain
    BY Zenon, <2>0, <2>3 DEF ExecuteMain, OnDisk, mainCfg
  <2>4. CASE Start
    <3>1. CASE pc' = "ended"
      BY Zenon, <3>1 DEF OnDisk
    <3>2. CASE pc' # "ended"
      BY Zenon, <2>0, <2>4, <3>2 DEF Start, Ended, OnDisk, mainCfg, disk
    <3> QED BY Zenon, <3>1, <3>2
  <2>5. CASE Run
    <3>1. found' = found /\ confd' = confd /\ confd = found /\ pc' = "idle" /\ todo' = DOMAIN cluster
      BY Zenon, <2>0, <2>5 DEF Run, OnDisk, disk
    <3>2. \A n \in Names \ todo' : Agrees(n)'
      BY Zenon, <3>1 DEF Agrees
    <3> QED BY Zenon, <2>5, <3>1, <3>2 DEF Run, OnDisk, mainCfg, disk
  <2>6. ASSUME NEW n \in Names, Sync(n)
        PROVE  OnDisk'
    <3>1. /\ pc = "idle" /\ pc' \in {"open", "remove"} /\ todo' = todo \ {n} /\ job'.name = n
          /\ UNCHANGED <<cfg, main, confd>>
      BY SMTT(30), <2>6 DEF Sync, disk
    <3>2. JobIsCurrent'
      BY SMTT(30), <2>6 DEF Sync, JobIsCurrent
    <3>3. ASSUME NEW m \in Names \ todo', m # n
          PROVE  Agrees(m)'
      <4>1. Agrees(m)
        BY Zenon, <3>1, <3>3 DEF OnDisk
      <4>2. found' = Drop(found, n)
        BY Zenon, <1>2, <3>1 DEF LbexStep
      <4>3. (m \in DOMAIN found' <=> m \in DOMAIN found) /\ (m \in DOMAIN found => found'[m] = found[m])
        BY Zenon, <3>3, <4>2, DropFacts
      <4> QED BY Zenon, <3>1, <4>1, <4>3 DEF Agrees
    <3> QED
      BY Zenon, <3>1, <3>2, <3>3 DEF OnDisk, mainCfg
  <2>7. CASE OpenFile \/ WriteSome
    <3>1. PICK content : confd' = Put(confd, job.name, content)
      BY Zenon, <2>7 DEF OpenFile, WriteSome
    <3>0. found' = found
      BY Zenon, <2>0, <2>7 DEF OpenFile, WriteSome
    <3>2. ASSUME NEW n, n # job.name, Agrees(n)
          PROVE  Agrees(n)'
      BY Zenon, <3>0, <3>1, <3>2 DEF Put, Agrees
    <3> QED
      BY Zenon, <2>7, <3>2 DEF OpenFile, WriteSome, OnDisk, JobIsCurrent, mainCfg
  <2>8. CASE WriteRest
    <3>0. found' = found
      BY Zenon, <2>0, <2>8 DEF WriteRest
    <3>1. confd' = Put(confd, job.name, job.config)
      BY Zenon, <2>8 DEF WriteRest
    <3>2. ASSUME NEW n \in Names \ todo
          PROVE  Agrees(n)'
      <4>1. CASE n = job.name
        <5>1. JobIsCurrent
          BY Zenon, <2>8, <4>1 DEF WriteRest, OnDisk
        <5> QED
          BY Zenon, <2>8, <3>1, <4>1, <5>1 DEF WriteRest, Put, Agrees, JobIsCurrent
      <4>2. CASE n # job.name
        <5>1. Agrees(n)
          BY Zenon, <2>8, <4>2 DEF WriteRest, OnDisk
        <5> QED
          BY Zenon, <3>0, <3>1, <4>2, <5>1 DEF Put, Agrees
      <4> QED
        BY Zenon, <4>1, <4>2
    <3> QED
      BY Zenon, <2>8, <3>2 DEF WriteRest, OnDisk, mainCfg
  <2>9. CASE DeleteStreamConfiguration
    <3>0. found' = found /\ job.name \notin DOMAIN found
      BY Zenon, <2>0, <2>9 DEF DeleteStreamConfiguration, FoundFiles
    <3>1. confd' = Drop(confd, job.name)
      BY Zenon, <2>9 DEF DeleteStreamConfiguration
    <3>2. ASSUME NEW n \in Names \ todo
          PROVE  Agrees(n)'
      <4>1. CASE n = job.name
        <5>1. job.name \notin DOMAIN cluster
          BY Zenon, <2>9, <4>1 DEF DeleteStreamConfiguration, OnDisk, JobIsCurrent
        <5> QED
          BY Zenon, <3>0, <3>1, <4>1, <5>1 DEF Drop, Agrees
      <4>2. CASE n # job.name
        <5>1. Agrees(n)
          BY Zenon, <2>9, <4>2 DEF DeleteStreamConfiguration, OnDisk
        <5> QED
          BY Zenon, <3>0, <3>1, <4>2, <5>1 DEF Drop, Agrees
      <4> QED
        BY Zenon, <4>1, <4>2
    <3> QED
      BY Zenon, <2>9, <3>2 DEF DeleteStreamConfiguration, OnDisk, mainCfg
  <2>10. CASE Test
    BY Zenon, <2>0, <2>10 DEF Test, OnDisk, Agrees, mainCfg, disk
  <2>11. CASE Signal
    BY Zenon, <2>0, <2>11 DEF Signal, OnDisk, Agrees, mainCfg, disk
  <2> QED
    BY Zenon, <1>2, <2>1, <2>2, <2>3, <2>4, <2>5, <2>6, <2>7, <2>8, <2>9, <2>10, <2>11 DEF LbexStep
<1>3. CASE MasterStep
  BY Zenon, <1>0, <1>3 DEF MasterStep
<1>4. CASE Crash
  BY Zenon, <1>4 DEF Crash, Ended, OnDisk
<1>5. CASE NginxDies
  BY Zenon, <1>0, <1>5 DEF NginxDies
<1>6. ASSUME NEW n \in Names, ClusterChange(n)
      PROVE  OnDisk'
  <2>1. (\E config : cluster' = Put(cluster, n, config)) \/ cluster' = Drop(cluster, n)
    BY Zenon, <1>6 DEF ClusterChange
  <2>2. ASSUME NEW m, m # n
        PROVE  /\ m \in DOMAIN cluster' <=> m \in DOMAIN cluster
               /\ m \in DOMAIN cluster => cluster'[m] = cluster[m]
    BY Zenon, <2>1, <2>2 DEF Put, Drop
  <2>3. CASE pc \in {"ended", "main", "create", "execute", "start", "run"}
    BY Zenon, <1>6, <2>3 DEF ClusterChange, OnDisk, mainCfg, disk
  <2>4. CASE pc \notin {"ended", "main", "create", "execute", "start", "run"}
    <3>1. todo' = todo \cup {n} /\ UNCHANGED <<pc, cfg, job, main, confd, found>>
      BY Zenon, <1>6, <2>4 DEF ClusterChange, disk
    <3>2. ASSUME NEW m, m # n
          PROVE  (Agrees(m) => Agrees(m)') /\ (m = job.name /\ JobIsCurrent => JobIsCurrent')
      BY Zenon, <2>2, <3>1, <3>2 DEF Agrees, JobIsCurrent
    <3> QED
      BY Zenon, <2>4, <3>1, <3>2 DEF OnDisk, mainCfg
  <2> QED
    BY Zenon, <2>3, <2>4
<1>7. CASE UNCHANGED vars
  BY Zenon, <1>0, <1>7 DEF vars
<1> QED
  BY Zenon, <1>1, <1>2, <1>3, <1>4, <1>5, <1>6, <1>7 DEF Next

-----------------------------------------------------------------------------
(* InNginx *)

\* Files change only on the way to a test and a signal, and a signal is lost on no
\* NGINX that runs.
LEMMA InNginxHolds == IInv /\ [Next]_vars => InNginx'
<1> SUFFICES ASSUME Shape, InNginx, [Next]_vars
             PROVE  InNginx'
  BY Zenon DEF IInv
<1>0. ASSUME UNCHANGED <<disk, nginxVars>>,
             pc' \in {"run", "idle", "open", "remove"} => pc \in {"run", "idle", "open", "remove"}
      PROVE  InNginx'
  BY Zenon, <1>0 DEF InNginx, CatchingUp, Current, disk, nginxVars
<1>1. CASE RestartStep
  BY Zenon, <1>1 DEF RestartStep, Restart, InNginx
<1>2. CASE LbexStep
  <2>1. CASE Main \/ CreateMain \/ ExecuteMain
    BY Zenon, <2>1 DEF Main, CreateMain, ExecuteMain, Ended, InNginx
  <2>2. CASE Start
    <3>1. CASE ~up /\ Loads(main, confd)
      BY Zenon, <2>2, <3>1 DEF Start, Shape, InNginx, Current, disk
    <3>2. CASE ~(~up /\ Loads(main, confd))
      BY Zenon, <2>2, <3>2 DEF Start, Ended, InNginx
    <3> QED
      BY Zenon, <3>1, <3>2
  <2>3. CASE Run
    BY Zenon, <1>0, <2>3 DEF Run
  <2>4. ASSUME NEW n \in Names, Sync(n)
        PROVE  InNginx'
    BY Zenon, <1>0, <2>4 DEF Sync
  <2>5. CASE OpenFile \/ WriteSome \/ WriteRest \/ DeleteStreamConfiguration
    BY Zenon, <2>5 DEF OpenFile, WriteSome, WriteRest, DeleteStreamConfiguration, InNginx
  <2>6. CASE Test
    BY Zenon, <2>6 DEF Test, InNginx, Loads, disk
  <2>7. CASE Signal
    BY Zenon, <2>7 DEF Signal, InNginx
  <2> QED
    BY Zenon, <1>2, <2>1, <2>2, <2>3, <2>4, <2>5, <2>6, <2>7 DEF LbexStep
<1>3. CASE MasterStep
  <2> SUFFICES ASSUME hup \/ CatchingUp \/ Current, Loads(main, confd)
               PROVE  hup' \/ CatchingUp' \/ Current'
    BY Zenon, <1>3 DEF MasterStep, InNginx, lbexVars, disk
  <2>0. UNCHANGED <<main, confd>>
    BY Zenon, <1>3 DEF MasterStep, disk
  <2>1. CASE BeginLoad
    BY ZenonT(60), <2>0, <2>1, EmptyFacts DEF BeginLoad, CatchingUp
  <2>2. CASE ReadFile
    <3>1. CASE hup
      BY Zenon, <2>2, <3>1 DEF ReadFile
    <3>2. CASE CatchingUp
      <4>1. PICK n \in reading.left :
              reading' = IF n \in DOMAIN confd
                         THEN [on |-> TRUE, main |-> reading.main, left |-> reading.left \ {n},
                               got |-> Put(reading.got, n, confd[n])]
                         ELSE NotReading
        BY ZenonT(60), <2>2 DEF ReadFile
      <4>2. n \in DOMAIN confd
        BY Zenon, <3>2 DEF CatchingUp
      <4>3. /\ reading'.on /\ reading'.main = reading.main
            /\ reading'.left = reading.left \ {n}
            /\ reading'.got = Put(reading.got, n, confd[n])
        BY Zenon, <4>1, <4>2
      <4> QED
        BY SMTT(30), <2>0, <3>2, <4>3 DEF CatchingUp, Put
    <3> QED
      BY Zenon, <2>2, <3>1, <3>2 DEF ReadFile, Current
  <2>3. CASE EndLoad
    <3>1. CASE hup
      BY Zenon, <2>3, <3>1 DEF EndLoad
    <3>2. CASE CatchingUp
      <4>1. reading.got = confd
        BY ZenonT(60), <2>3, <3>2, SameFiles DEF EndLoad, CatchingUp, Shape
      <4>2. loaded' = [main |-> main, files |-> Serving(confd)]
        BY Zenon, <2>3, <3>2, <4>1 DEF EndLoad, CatchingUp
      <4> QED
        BY Zenon, <2>0, <2>3, <4>2 DEF EndLoad, Current, NotReading
    <3> QED
      BY Zenon, <2>3, <3>1, <3>2 DEF EndLoad, Current
  <2> QED
    BY Zenon, <1>3, <2>1, <2>2, <2>3 DEF MasterStep
<1>4. CASE Crash
  BY Zenon, <1>4 DEF Crash, Ended, InNginx
<1>5. CASE NginxDies
  BY Zenon, <1>5 DEF NginxDies, NginxGone, InNginx
<1>6. ASSUME NEW n \in Names, ClusterChange(n)
      PROVE  InNginx'
  BY Zenon, <1>0, <1>6 DEF ClusterChange
<1>7. CASE UNCHANGED vars
  BY Zenon, <1>0, <1>7 DEF vars, lbexVars
<1> QED
  BY Zenon, <1>1, <1>2, <1>3, <1>4, <1>5, <1>6, <1>7 DEF Next

-----------------------------------------------------------------------------
\* The three parts together are inductive.
LEMMA IInvHolds == Safety => []IInv
<1>1. IInv /\ [Next]_vars => IInv'
  BY Zenon, ShapeHolds, FoundHolds, OnDiskHolds, InNginxHolds DEF IInv
<1> QED
  BY <1>1, InitIInv, PTL DEF Safety

\* For any services and configurations, any deployment, any number of crashes and
\* restarts and any interleaving of lbex's writes with the reads of NGINX: at rest,
\* NGINX serves from the files the services call for and, outside of a container,
\* from what is left of services that went unnoticed, if it can load them (Reload,
\* templateStream, DeleteStreamConfiguration, Start).
THEOREM RestServesCluster == Safety => []SettledServesCluster
<1>1. IInv => SettledServesCluster
  <2> SUFFICES ASSUME IInv, AtRest, Loads(mainCfg, Wanted)
               PROVE  ServesWanted
    BY Zenon DEF SettledServesCluster
  <2>1. main = mainCfg /\ \A n \in Names : Agrees(n)
    BY Zenon DEF IInv, OnDisk, AtRest
  <2>2. confd = Wanted
    <3> DEFINE left == IF settings.container THEN <<>> ELSE found
    <3>1. /\ Fn(Wanted) /\ DOMAIN Wanted = DOMAIN cluster \cup DOMAIN left
          /\ \A n \in DOMAIN Wanted : Wanted[n] = IF n \in DOMAIN cluster THEN cluster[n] ELSE left[n]
      BY Zenon DEF Wanted, Fn
    <3>2. /\ DOMAIN left = DOMAIN found
          /\ \A n \in DOMAIN left : left[n] = found[n]
      <4>1. CASE settings.container
        BY Zenon, <4>1, EmptyFacts DEF IInv, FoundFiles
      <4>2. CASE ~settings.container
        BY Zenon, <4>2
      <4> QED BY Zenon, <4>1, <4>2
    <3> HIDE DEF left
    <3>3. DOMAIN confd = DOMAIN Wanted
      BY Zenon, <2>1, <3>1, <3>2 DEF IInv, Shape, FoundFiles, Agrees
    <3>4. \A n \in DOMAIN confd : confd[n] = Wanted[n]
      BY Zenon, <2>1, <3>1, <3>2, <3>3 DEF IInv, Shape, Agrees
    <3> QED
      BY Zenon, <3>1, <3>3, <3>4, SameFiles DEF IInv, Shape
  <2> QED
    BY Zenon, <2>1, <2>2 DEF IInv, InNginx, AtRest, CatchingUp, Current, ServesWanted
<1> QED
  BY <1>1, IInvHolds, PTL

-----------------------------------------------------------------------------
(* The command line *)

\* --version is the one flag without a variable: no other flag's has its name.
LEMMA VersionHasNoVariable ==
  ASSUME NEW f \in envSupport
  PROVE  variableName(f) # variableName(version)
<1>1. \/ f = <<"kubeconfig">> \/ f = <<"proxy">>
      \/ f = <<"service", "name">> \/ f = <<"service", "pool">>
      \/ f = <<"strict", "affinity">> \/ f = <<"anti", "affinity">> \/ f = <<"require", "port">>
      \/ f = <<"health", "check">> \/ f = <<"health", "port">>
  BY Zenon DEF envSupport, Flags, StringFlags, BoolFlags, IntFlags, kubeconfig, proxy, version,
               healthCheck, healthPort
<1>2. variableName(f)[2] # "version"
  <2>1. CASE f = <<"kubeconfig">>
    BY SMTT(30), <2>1 DEF variableName
  <2>2. CASE f = <<"proxy">>
    BY SMTT(30), <2>2 DEF variableName
  <2>3. CASE f = <<"service", "name">>
    BY SMTT(30), <2>3 DEF variableName
  <2>4. CASE f = <<"service", "pool">>
    BY SMTT(30), <2>4 DEF variableName
  <2>5. CASE f = <<"strict", "affinity">>
    BY SMTT(30), <2>5 DEF variableName
  <2>6. CASE f = <<"anti", "affinity">>
    BY SMTT(30), <2>6 DEF variableName
  <2>7. CASE f = <<"require", "port">>
    BY SMTT(30), <2>7 DEF variableName
  <2>8. CASE f = <<"health", "check">>
    BY SMTT(30), <2>8 DEF variableName
  <2>9. CASE f = <<"health", "port">>
    BY SMTT(30), <2>9 DEF variableName
  <2> QED
    BY Zenon, <1>1, <2>1, <2>2, <2>3, <2>4, <2>5, <2>6, <2>7, <2>8, <2>9
<1>3. variableName(version)[2] = "version"
  BY SMTT(30) DEF variableName, version
<1> QED
  BY Zenon, <1>2, <1>3

\* The variable of a flag that was given is not looked at, for that flag or for
\* any other (alreadySet, envParse).
LEMMA VariableIgnored ==
  ASSUME NEW args, DOMAIN args \subseteq Flags, NEW env, NEW f \in DOMAIN args, NEW text
  PROVE  envParse(args, Put(env, variableName(f), text)) = envParse(args, env)
<1> DEFINE changed == Put(env, variableName(f), text)
<1>1. ASSUME NEW g \in envSupport, variableName(g) \notin alreadySet(args)
      PROVE  Getenv(changed, variableName(g)) = Getenv(env, variableName(g))
  <2>1. variableName(g) # variableName(f)
    <3>1. CASE f \in envSupport
      BY Zenon, <1>1, <3>1 DEF alreadySet
    <3>2. CASE f \notin envSupport
      BY Zenon, <3>2, VersionHasNoVariable DEF envSupport
    <3> QED
      BY Zenon, <3>1, <3>2
  <2> QED
    BY Zenon, <2>1 DEF Getenv, Put
<1>2. FromEnv(args, changed) = FromEnv(args, env)
  BY Zenon, <1>1 DEF FromEnv
<1>3. ASSUME NEW g \in FromEnv(args, env)
      PROVE  Getenv(changed, variableName(g)) = Getenv(env, variableName(g))
  BY Zenon, <1>1, <1>3 DEF FromEnv
<1> QED
  BY Zenon, <1>2, <1>3 DEF envParse

\* For any command line and environment: no text in the variable of a flag that
\* was given changes a setting (envParse).
THEOREM GivenFlagsStand == Safety => []CommandLineWins
<1> DEFINE Parsed == /\ settings \in Settings
                     /\ pc = "create" => cfg = envParse(settings.args, settings.env)
<1>1. Init => Parsed
  BY Zenon DEF Init
<1>2. Parsed /\ [Next]_vars => Parsed'
  <2> SUFFICES ASSUME Parsed, [Next]_vars
               PROVE  Parsed'
    OBVIOUS
  <2>1. CASE RestartStep
    BY Zenon, <2>1 DEF RestartStep, Restart
  <2>2. CASE LbexStep
    <3> UNCHANGED settings
      BY Zenon, <2>2 DEF LbexStep
    <3>1. CASE Main
      BY ZenonT(60), <3>1 DEF Main, Ended
    <3>2. CASE CreateMain \/ ExecuteMain \/ Start \/ Run \/ (\E n \in Names : Sync(n)) \/ OpenFile
      BY ZenonT(60), <3>2 DEF CreateMain, ExecuteMain, Start, Ended, Run, Sync, OpenFile
    <3>3. CASE WriteSome \/ WriteRest \/ DeleteStreamConfiguration \/ Test \/ Signal
      BY ZenonT(60), <3>3 DEF WriteSome, WriteRest, DeleteStreamConfiguration, Test, Signal
    <3> QED
      BY Zenon, <2>2, <3>1, <3>2, <3>3 DEF LbexStep
  <2>3. CASE MasterStep \/ NginxDies \/ (\E n \in Names : ClusterChange(n)) \/ UNCHANGED vars
    BY Zenon, <2>3 DEF MasterStep, NginxDies, ClusterChange, vars, lbexVars
  <2>4. CASE Crash
    BY Zenon, <2>4 DEF Crash, Ended
  <2> QED
    BY Zenon, <2>1, <2>2, <2>3, <2>4 DEF Next
<1>3. Parsed => CommandLineWins
  BY Zenon, KnownFlags, VariableIgnored DEF CommandLineWins
<1> QED
  BY <1>1, <1>2, <1>3, PTL DEF Safety

-----------------------------------------------------------------------------
(* Types *)

\* With Shape, the type invariant: the job has a name while a sync is under
\* way, ...
Types ==
  /\ settings \in Settings
  /\ \A n \in DOMAIN cluster : cluster[n] \in Configs(n)
  /\ pc \in {"ended", "main", "create", "execute", "start", "run", "idle",
             "open", "write", "remove", "test", "signal"}
  /\ job.name \in Names <=> pc \in {"open", "write", "remove", "test", "signal"}
  /\ faults \in 0..MaxFaults

\* ... and NGINX, while it runs, has a complete nginx.conf, since it does not
\* load another.
Complete ==
  /\ main.complete \in BOOLEAN /\ reading.main.complete \in BOOLEAN
  /\ loaded.main.complete = up

\* What stands for no job, and for an NGINX that is not there.
LEMMA NothingThere ==
  /\ NoJob.name \notin Names
  /\ TornMain.complete = FALSE
  /\ Stopped.main.complete = FALSE
  /\ NotReading.main.complete = FALSE
BY Zenon, NamesAssumption DEF NoJob, TornMain, Stopped, NotReading

\* There is no job before lbex starts, and no NGINX.
LEMMA InitTypes == Init => Types /\ Complete
<1> SUFFICES ASSUME Init
             PROVE  Types /\ Complete
  OBVIOUS
<1>1. Types
  BY SMTT(30), NothingThere, FaultsAssumption DEF Init, Types
<1>2. Complete
  BY ZenonT(60), NothingThere DEF Init, Complete
<1> QED
  BY Zenon, <1>1, <1>2

\* The job comes with a sync and goes with its reload.
LEMMA TypesHold == Types /\ [Next]_vars => Types'
<1> SUFFICES ASSUME Types, [Next]_vars
             PROVE  Types'
  OBVIOUS
<1> USE NothingThere DEF Types
<1>1. CASE RestartStep
  BY ZenonT(60), <1>1 DEF RestartStep, Restart
<1>2. CASE LbexStep
  <2> UNCHANGED <<settings, cluster, faults>>
    BY ZenonT(60), <1>2 DEF LbexStep
  <2>1. CASE Main \/ Start
    BY ZenonT(60), <2>1 DEF Main, Start, Ended
  <2>2. CASE CreateMain \/ ExecuteMain \/ Run
    BY ZenonT(60), <2>2 DEF CreateMain, ExecuteMain, Run
  <2>3. ASSUME NEW n \in Names, Sync(n)
        PROVE  Types'
    BY SMTT(30), <2>3 DEF Sync
  <2>4. CASE OpenFile \/ WriteSome \/ WriteRest \/ DeleteStreamConfiguration
    BY Zenon, <2>4 DEF OpenFile, WriteSome, WriteRest, DeleteStreamConfiguration
  <2>5. CASE Test \/ Signal
    BY Zenon, <2>5 DEF Test, Signal
  <2> QED
    BY ZenonT(60), <1>2, <2>1, <2>2, <2>3, <2>4, <2>5 DEF LbexStep
<1>3. CASE MasterStep
  BY Zenon, <1>3 DEF MasterStep, lbexVars
<1>4. CASE Crash
  BY SMTT(30), <1>4, FaultsAssumption DEF Crash, Ended
<1>5. CASE NginxDies
  BY SMTT(30), <1>5, FaultsAssumption DEF NginxDies, lbexVars
<1>6. ASSUME NEW n \in Names, ClusterChange(n)
      PROVE  Types'
  <2>1. (\E config \in Configs(n) : cluster' = Put(cluster, n, config)) \/ cluster' = Drop(cluster, n)
    BY Zenon, <1>6 DEF ClusterChange
  <2>2. \A m \in DOMAIN cluster' : cluster'[m] \in Configs(m)
    BY SMTT(30), <2>1 DEF Put, Drop
  <2> QED
    BY Zenon, <1>6, <2>2 DEF ClusterChange
<1>7. CASE UNCHANGED vars
  BY Zenon, <1>7 DEF vars, lbexVars
<1> QED
  BY ZenonT(60), <1>1, <1>2, <1>3, <1>4, <1>5, <1>6, <1>7 DEF Next

\* NGINX does not load an nginx.conf that was cut short.
LEMMA LoadsComplete ==
  ASSUME NEW m, NEW fs, Loads(m, fs)
  PROVE  m.complete
BY ZenonT(60) DEF Loads, Accepts

\* NGINX starts from a complete nginx.conf (Start) and goes on from one
\* (Reload).
LEMMA CompleteHolds == Shape /\ Complete /\ [Next]_vars => Complete'
<1> SUFFICES ASSUME Shape, Complete, [Next]_vars
             PROVE  Complete'
  OBVIOUS
<1> USE NothingThere DEF Complete, disk, nginxVars, lbexVars
<1>1. CASE RestartStep
  BY ZenonT(60), <1>1 DEF RestartStep, Restart
<1>2. CASE LbexStep
  <2>1. CASE CreateMain
    BY Zenon, <2>1 DEF CreateMain
  <2>2. CASE ExecuteMain
    <3>1. mainCfg.complete \in BOOLEAN
      BY ZenonT(60) DEF mainCfg
    <3> QED
      BY ZenonT(60), <2>2, <3>1 DEF ExecuteMain
  <2>3. CASE Start
    <3>1. CASE ~up /\ Loads(main, confd)
      <4>1. main.complete = TRUE
        <5>1. main.complete
          BY Zenon, <3>1, LoadsComplete
        <5> QED
          BY Zenon, <5>1
      <4>2. loaded' = [main |-> main, files |-> Serving(confd)] /\ up' = TRUE
        BY Zenon, <2>3, <3>1 DEF Start
      <4>3. loaded'.main = main
        BY Zenon, <4>2
      <4>4. main' = main /\ reading' = reading
        BY Zenon, <2>3, <3>1 DEF Start
      <4> QED
        BY Zenon, <4>1, <4>2, <4>3, <4>4
    <3>2. CASE ~(~up /\ Loads(main, confd))
      BY Zenon, <2>3, <3>2 DEF Start
    <3> QED
      BY Zenon, <3>1, <3>2
  <2>4. CASE Main \/ Run \/ (\E n \in Names : Sync(n)) \/ Test
    BY Zenon, <2>4 DEF Main, Run, Sync, Test
  <2>5. CASE OpenFile \/ WriteSome \/ WriteRest \/ DeleteStreamConfiguration \/ Signal
    BY ZenonT(60), <2>5 DEF OpenFile, WriteSome, WriteRest, DeleteStreamConfiguration, Signal
  <2> QED
    BY Zenon, <1>2, <2>1, <2>2, <2>3, <2>4, <2>5 DEF LbexStep
<1>3. CASE MasterStep
  <2> UNCHANGED <<main, up>>
    BY Zenon, <1>3 DEF MasterStep
  <2>1. CASE BeginLoad
    BY Zenon, <2>1 DEF BeginLoad
  <2>2. CASE ReadFile
    <3>1. reading'.main = reading.main \/ reading' = NotReading
      BY Zenon, <2>2 DEF ReadFile
    <3> QED
      BY Zenon, <2>2, <3>1 DEF ReadFile
  <2>3. CASE EndLoad
    <3>1. up = TRUE
      BY Zenon, <2>3 DEF EndLoad, Shape
    <3>2. Loads(reading.main, reading.got) => reading.main.complete = TRUE
      <4>1. ASSUME Loads(reading.main, reading.got)
            PROVE  reading.main.complete
        BY Zenon, <4>1, LoadsComplete
      <4>2. reading.main.complete \in BOOLEAN
        BY Zenon
      <4> QED
        BY ZenonT(60), <4>1, <4>2
    <3>3. (loaded'.main = reading.main /\ reading.main.complete = TRUE) \/ loaded' = loaded
      BY Zenon, <2>3, <3>2 DEF EndLoad
    <3> QED
      BY ZenonT(60), <2>3, <3>1, <3>3 DEF EndLoad
  <2> QED
    BY Zenon, <1>3, <2>1, <2>2, <2>3 DEF MasterStep
<1>4. CASE Crash
  BY Zenon, <1>4 DEF Crash, NginxGone
<1>5. CASE NginxDies
  BY Zenon, <1>5 DEF NginxDies, NginxGone
<1>6. CASE \E n \in Names : ClusterChange(n)
  BY Zenon, <1>6 DEF ClusterChange
<1>7. CASE UNCHANGED vars
  BY Zenon, <1>7 DEF vars
<1> QED
  BY Zenon, <1>1, <1>2, <1>3, <1>4, <1>5, <1>6, <1>7 DEF Next

\* The state stays well-formed: a sync has a name just while it is under way,
\* and NGINX runs exactly when it has a complete nginx.conf (Start, Reload).
THEOREM TypeCorrect == Safety => []TypeOK
<1>1. Init => Types /\ Complete
  BY Zenon, InitTypes
<1>2. IInv /\ Types /\ Complete /\ [Next]_vars => Types' /\ Complete'
  BY Zenon, TypesHold, CompleteHolds DEF IInv
<1>3. IInv /\ Types /\ Complete => TypeOK
  BY SMTT(30) DEF IInv, Shape, Types, Complete, TypeOK
<1> QED
  BY <1>1, <1>2, <1>3, IInvHolds, PTL DEF Safety
=============================================================================
