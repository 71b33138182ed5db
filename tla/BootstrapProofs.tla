-------------------------- MODULE BootstrapProofs --------------------------
(***************************************************************************)
(* Proofs about Bootstrap, bootstrap.yml beside the rolling restart, for   *)
(* every inventory and every bound:                                        *)
(*   - every reachable state is well typed;                                *)
(*   - success of the rolling restart keeps its meaning beside a bootstrap; *)
(*   - success of bootstrap.yml means that what serves has read its files; *)
(*   - a first bootstrap takes the servers in turn.                        *)
(***************************************************************************)
EXTENDS Bootstrap, RollingRestartProofs

\* What the steps need to know of the constants.
LEMMA BootConstants ==
  /\ Len(Groups) \in Nat /\ 1 \in Plays
  /\ \A i \in Plays : Groups[i] \subseteq Nodes /\ Groups[i] # {}
  /\ MaxPlaybooks \in Nat
  /\ Servers \subseteq Nodes /\ Primary \in Nodes
<1>1. Groups \in Seq((SUBSET Nodes) \ {{}}) /\ MaxPlaybooks \in Nat
  BY BootstrapAssumption
<1>2. Len(Groups) \in Nat /\ \A i \in 1..Len(Groups) : Groups[i] \in (SUBSET Nodes) \ {{}}
  BY <1>1
<1>3. PICK j \in Plays : Primary \in Groups[j]
  BY ConstantTypes, BootstrapAssumption
<1>4. 1 \in Plays
  BY <1>2, <1>3 DEF Plays
<1>5. ASSUME NEW i \in Plays
      PROVE  Groups[i] \subseteq Nodes /\ Groups[i] # {}
  <2>1. Groups[i] \in (SUBSET Nodes) \ {{}}
    BY <1>2 DEF Plays
  <2> QED BY <2>1
<1> QED BY <1>1, <1>2, <1>4, <1>5, ConstantTypes

-----------------------------------------------------------------------------
\* What a step of bootstrap.yml leaves alone in the rolling restart.
LEMMA BootFrame ==
  ASSUME TypeOK, BootTypeOK, Boot
  PROVE  /\ UNCHANGED <<cordoned, crashes, pc, limit, opts, left, host, tries,
                        failed, outcome, runs>>
         /\ up' \subseteq up /\ ready' \subseteq ready
         /\ disk \subseteq disk' /\ disk' \subseteq Nodes
         /\ loaded' \subseteq loaded /\ up' \cap loaded \subseteq loaded'
<1> USE BootConstants
<1> USE DEF restUnchanged, TypeOK, BootTypeOK
<1>1. CASE StartBootstrap
  BY <1>1 DEF StartBootstrap, vars, clusterVars, playVars
<1>2. CASE BootConfigure
  <2>1. disk \subseteq disk' /\ disk' \subseteq Nodes
    BY <1>2 DEF BootConfigure
  <2> QED BY <1>2, <2>1 DEF BootConfigure
<1>3. CASE BootInstall
  BY <1>3 DEF BootInstall, RestartAll
<1>4. CASE BootInstalled \/ Finalize
  BY <1>4 DEF BootInstalled, Finalize
<1>5. CASE WriteSnapshots \/ WriteRegistries
  BY <1>5 DEF WriteSnapshots, WriteRegistries
<1>6. CASE RestartForSnapshots \/ RestartForRegistries
  BY <1>6 DEF RestartForSnapshots, RestartForRegistries, RunHandler, RestartAll
<1>7. CASE SnapshotsRestarted \/ RegistriesRestarted
  BY <1>7 DEF SnapshotsRestarted, RegistriesRestarted
<1> QED BY <1>1, <1>2, <1>3, <1>4, <1>5, <1>6, <1>7 DEF Boot

\* A step of the rolling restart or of the cluster adds to config.yaml only.
LEMMA RollFrame ==
  ASSUME TypeOK, Next
  PROVE  disk \subseteq disk'
  BY DEF Next, Play, StartRun, ConfigureServers, ConfigureAgents, Configure,
         TakeHost, AllRestarted, Drain, Restart, AwaitMachine, AwaitService,
         AwaitApi, AwaitReady, AwaitEtcd, Poll, Uncordon, NodeStarts,
         NodeCrashes, NodeNoticed, batchUnchanged, playVars

\* The invariants of the rolling restart hold beside a bootstrap, too.
LEMMA RollingInvStep ==
  ASSUME TypeOK, BootTypeOK, CordonInv, ConfigInv, [BootNext]_allVars
  PROVE  TypeOK' /\ CordonInv' /\ ConfigInv'
<1>1. CASE Boot
  <2>1. TypeOK'
    BY <1>1, BootFrame DEF TypeOK, ClusterTypeOK, CountersOK
  <2>2. CordonInv'
    BY <1>1, BootFrame DEF CordonInv
  <2>3. ConfigInv'
    BY <1>1, BootFrame DEF ConfigInv
  <2> QED BY <2>1, <2>2, <2>3
<1>2. CASE Roll
  BY <1>2, TypeStep, StepCordon, StepConfig DEF Roll
<1>3. CASE UNCHANGED allVars
  BY <1>3, TypeStep, StepCordon, StepConfig DEF allVars
<1> QED BY <1>1, <1>2, <1>3 DEF BootNext

-----------------------------------------------------------------------------
\* The parts of a step of bootstrap.yml.

\* The pairs that WriteFile changes, and the hosts that it notifies.
Changed(f, hosts, bad, wrote) ==
  {<<f, n>> : n \in (hosts \ bad) \cup wrote} \ written
Notified(f, hosts, bad, wrote) ==
  {n \in hosts \ bad : <<f, n>> \in Changed(f, hosts, bad, wrote)}

\* What that does to the files: every host that does not fail has the file, and
\* what is new on a disk is notified (told) or its restart is lost.
FileOut(f, hosts, bad, told) ==
  /\ written \subseteq written' /\ written' \in SUBSET (Files \X Nodes)
  /\ read' = read /\ read' \in SUBSET written'
  /\ dropped \subseteq dropped' /\ dropped' \in SUBSET (written' \ read')
  /\ \A n \in hosts \ bad : <<f, n>> \in written'
  /\ \A g \in Files : \A n \in Nodes :
       <<g, n>> \in written' \ (written \cup dropped') => g = f /\ n \in told
  /\ \A n \in told : <<f, n>> \in written'
  /\ told \subseteq hosts \ bad

\* Writing a file has that effect, whichever hosts fail at it.
LEMMA WriteFileStep ==
  ASSUME BootTypeOK, NEW f \in Files, NEW hosts \in SUBSET Nodes,
         NEW bad \in SUBSET hosts, NEW wrote \in SUBSET bad,
         written' = written \cup Changed(f, hosts, bad, wrote),
         dropped' = dropped \cup {p \in Changed(f, hosts, bad, wrote) : p[2] \in wrote},
         read' = read
  PROVE  FileOut(f, hosts, bad, Notified(f, hosts, bad, wrote))
<1> DEFINE ch == Changed(f, hosts, bad, wrote)
<1>1. ch \in SUBSET (Files \X Nodes) /\ ch \cap written = {}
  BY DEF Changed
<1>2. \A g \in Files : \A n \in Nodes :
        <<g, n>> \in ch => g = f /\ n \in (hosts \ bad) \cup wrote
  BY DEF Changed
<1>3. \A n \in (hosts \ bad) \cup wrote : <<f, n>> \in written \cup ch
  BY DEF Changed
<1>4. \A n : n \in Notified(f, hosts, bad, wrote) <=> n \in hosts \ bad /\ <<f, n>> \in ch
  BY DEF Notified
<1>5. \A n : <<f, n>>[2] = n
  OBVIOUS
<1> HIDE DEF ch
<1>6. /\ written' = written \cup ch
      /\ dropped' = dropped \cup {p \in ch : p[2] \in wrote}
  BY DEF ch
<1>7. written \subseteq written' /\ written' \in SUBSET (Files \X Nodes)
  BY <1>1, <1>6 DEF BootTypeOK
<1>8. read' \in SUBSET written' /\ dropped' \in SUBSET (written' \ read')
  BY <1>1, <1>6 DEF BootTypeOK
<1>9. \A n \in hosts \ bad : <<f, n>> \in written'
  BY <1>3, <1>6
<1>10. \A g \in Files : \A n \in Nodes :
         <<g, n>> \in written' \ (written \cup dropped') =>
           g = f /\ n \in Notified(f, hosts, bad, wrote)
  BY <1>2, <1>4, <1>5, <1>6
<1>11. \A n \in Notified(f, hosts, bad, wrote) : <<f, n>> \in written'
  BY <1>4, <1>6
<1>12. Notified(f, hosts, bad, wrote) \subseteq hosts \ bad
  BY <1>4
<1> QED BY <1>6, <1>7, <1>8, <1>9, <1>10, <1>11, <1>12 DEF FileOut

\* The snapshot configuration goes to one server that has not failed.
LEMMA WriteSnapshotsStep ==
  ASSUME BootTypeOK, Alive, FilesInv, WriteSnapshots
  PROVE  \E n \in Servers \ bfailed : \E bad \in SUBSET {n} : \E told \in SUBSET {n} :
           /\ n \in First(bhosts)
           /\ FileOut("snapshots", {n}, bad, told)
           /\ bfailed' = bfailed \cup bad
           /\ \/ bad = {n} /\ told = {} /\ EndBootstrap("failed")
              \/ bad = {} /\ told = {} /\ SnapshotsNext(n)
              \/ bad = {} /\ told = {n} /\ BootGoto("snapshots handler", {n})
<1>1. PICK n \in First(bhosts) :
        WriteFile("snapshots", {n}, "snapshots handler", SnapshotsNext(n))
  BY DEF WriteSnapshots
<1>2. n \in Servers \ bfailed
  BY DEF First, Alive, FilesInv, WriteSnapshots
<1>3. PICK bad \in SUBSET {n} : \E wrote \in SUBSET bad :
        /\ written' = written \cup Changed("snapshots", {n}, bad, wrote)
        /\ dropped' = dropped \cup
             {p \in Changed("snapshots", {n}, bad, wrote) : p[2] \in wrote}
        /\ FailOrGo({n}, bad, IF Notified("snapshots", {n}, bad, wrote) = {}
                              THEN SnapshotsNext(n)
                              ELSE BootGoto("snapshots handler",
                                            Notified("snapshots", {n}, bad, wrote)))
  BY <1>1 DEF WriteFile, Changed, Notified
<1>4. PICK wrote \in SUBSET bad :
        /\ written' = written \cup Changed("snapshots", {n}, bad, wrote)
        /\ dropped' = dropped \cup
             {p \in Changed("snapshots", {n}, bad, wrote) : p[2] \in wrote}
        /\ FailOrGo({n}, bad, IF Notified("snapshots", {n}, bad, wrote) = {}
                              THEN SnapshotsNext(n)
                              ELSE BootGoto("snapshots handler",
                                            Notified("snapshots", {n}, bad, wrote)))
  BY <1>3
<1> DEFINE told == Notified("snapshots", {n}, bad, wrote)
<1>5. FileOut("snapshots", {n}, bad, told)
  <2>1. \A hosts \in SUBSET Nodes : \A b \in SUBSET hosts : \A w \in SUBSET b :
          /\ written' = written \cup Changed("snapshots", hosts, b, w)
          /\ dropped' = dropped \cup
               {p \in Changed("snapshots", hosts, b, w) : p[2] \in w}
          => FileOut("snapshots", hosts, b, Notified("snapshots", hosts, b, w))
    BY WriteFileStep DEF WriteSnapshots, Files
  <2>2. {n} \in SUBSET Nodes
    BY <1>2, BootConstants
  <2> QED BY <1>4, <2>1, <2>2
<1>6. told \subseteq {n} \ bad
  BY DEF Notified
<1> HIDE DEF told
<1>7. bfailed' = bfailed \cup bad
  BY <1>4 DEF FailOrGo
<1>8. \/ bad = {n} /\ told = {} /\ EndBootstrap("failed")
      \/ bad = {} /\ told = {} /\ SnapshotsNext(n)
      \/ bad = {} /\ told = {n} /\ BootGoto("snapshots handler", {n})
  BY <1>2, <1>4, <1>6 DEF FailOrGo, told
<1> QED BY <1>1, <1>2, <1>5, <1>6, <1>7, <1>8

\* The registries go to all the hosts that have not failed, at once.
LEMMA WriteRegistriesStep ==
  ASSUME BootTypeOK, Alive, FilesInv, WriteRegistries
  PROVE  \E bad \in SUBSET bhosts : \E told \in SUBSET bhosts :
           /\ bhosts = Nodes \ bfailed
           /\ FileOut("registries", bhosts, bad, told)
           /\ bfailed' = bfailed \cup bad
           /\ \/ bad = bhosts /\ told = {} /\ EndBootstrap("failed")
              \/ told = {} /\ Finish(bfailed')
              \/ BootGoto("registries handler", told)
<1>1. PICK bad \in SUBSET bhosts : \E wrote \in SUBSET bad :
        /\ written' = written \cup Changed("registries", bhosts, bad, wrote)
        /\ dropped' = dropped \cup
             {p \in Changed("registries", bhosts, bad, wrote) : p[2] \in wrote}
        /\ FailOrGo(bhosts, bad, IF Notified("registries", bhosts, bad, wrote) = {}
                                 THEN Finish(bfailed')
                                 ELSE BootGoto("registries handler",
                                               Notified("registries", bhosts, bad, wrote)))
  BY DEF WriteRegistries, WriteFile, Changed, Notified
<1>2. PICK wrote \in SUBSET bad :
        /\ written' = written \cup Changed("registries", bhosts, bad, wrote)
        /\ dropped' = dropped \cup
             {p \in Changed("registries", bhosts, bad, wrote) : p[2] \in wrote}
        /\ FailOrGo(bhosts, bad, IF Notified("registries", bhosts, bad, wrote) = {}
                                 THEN Finish(bfailed')
                                 ELSE BootGoto("registries handler",
                                               Notified("registries", bhosts, bad, wrote)))
  BY <1>1
<1> DEFINE told == Notified("registries", bhosts, bad, wrote)
<1>3. bhosts = Nodes \ bfailed
  BY DEF FilesInv, WriteRegistries
<1>4. FileOut("registries", bhosts, bad, told)
  BY <1>2, WriteFileStep DEF WriteRegistries, Files, BootTypeOK
<1>5. told \subseteq bhosts \ bad
  BY DEF Notified
<1> HIDE DEF told
<1>6. bhosts \subseteq bfailed \cup bad => bad = bhosts
  BY <1>3
<1>7. bfailed' = bfailed \cup bad
  BY <1>2 DEF FailOrGo
<1>8. \/ bad = bhosts /\ told = {} /\ EndBootstrap("failed")
      \/ told = {} /\ Finish(bfailed')
      \/ BootGoto("registries handler", told)
  BY <1>2, <1>5, <1>6 DEF FailOrGo, told
<1> QED BY <1>3, <1>4, <1>5, <1>7, <1>8

\* Running a handler: what it cannot restart is lost, the others read nothing
\* until they are back.
LEMMA RunHandlerStep ==
  ASSUME BootTypeOK, NEW f \in Files, bpc = Handler(f), Pending \subseteq written,
         NEW where, RunHandler(f, where), written' = written
  PROVE  \E bad \in SUBSET bhosts :
           /\ bhosts' = bhosts \ bad /\ bfailed' = bfailed \cup bad
           /\ up' = up \ (bhosts \ bad)
           /\ bpc' = where /\ boutcome' = boutcome
           /\ read' \in SUBSET read /\ dropped \subseteq dropped'
           /\ dropped' \in SUBSET (written' \ read')
           /\ \A g \in Files : \A n \in bad : g = f => <<g, n>> \in read' \cup dropped'
           /\ \A g \in Files : \A n \in up' : <<g, n>> \in read => <<g, n>> \in read'
<1>1. PICK bad \in SUBSET bhosts :
        /\ dropped' = dropped \cup ({<<f, n>> : n \in bad} \ read)
        /\ RestartAll(bhosts \ bad)
        /\ bfailed' = bfailed \cup bad
        /\ BootGoto(where, bhosts \ bad)
  BY DEF RunHandler
<1>2. /\ up' = up \ (bhosts \ bad)
      /\ read' = {p \in read : p[2] \notin bhosts \ bad}
      /\ bpc' = where /\ bhosts' = bhosts \ bad /\ boutcome' = boutcome
  BY <1>1 DEF RestartAll, BootGoto
<1>3. {<<f, n>> : n \in bad} \subseteq written
  <2>1. \A n \in bhosts : <<f, n>> \in Pending
    <3>1. \A n \in bhosts : <<f, n>> \in Files \X bhosts /\ <<f, n>>[1] = f
      OBVIOUS
    <3> QED BY <3>1 DEF Pending
  <2> QED BY <2>1
<1>4. read' \in SUBSET read /\ dropped \subseteq dropped'
  BY <1>1, <1>2
<1>5. dropped' \in SUBSET (written' \ read')
  BY <1>1, <1>3, <1>4 DEF BootTypeOK
<1>6. \A g \in Files : \A n \in up' : <<g, n>> \in read => <<g, n>> \in read'
  <2>1. \A g \in Files : \A n \in up' : <<g, n>>[2] \notin bhosts \ bad
    BY <1>2
  <2> QED BY <1>2, <2>1
<1>7. \A g \in Files : \A n \in bad : g = f => <<g, n>> \in read' \cup dropped'
  <2>1. \A n \in bad : <<f, n>>[2] \notin bhosts \ bad
    OBVIOUS
  <2>2. \A n \in bad : <<f, n>> \in read => <<f, n>> \in read'
    BY <1>2, <2>1
  <2>3. \A n \in bad : <<f, n>> \notin read => <<f, n>> \in dropped'
    BY <1>1
  <2> QED BY <2>2, <2>3
<1> QED BY <1>1, <1>2, <1>4, <1>5, <1>6, <1>7

\* The handlers of the two plays.
LEMMA HandlerSteps ==
  /\ "snapshots" \in Files /\ Handler("snapshots") = "snapshots handler"
  /\ "registries" \in Files /\ Handler("registries") = "registries handler"
  /\ \A f, g \in Files : Handler(f) = Handler(g) => f = g
<1>1. \A f \in Files : f = "snapshots" \/ f = "registries"
  BY DEF Files
<1>2. "snapshots handler" # "registries handler"
  OBVIOUS
<1>3. "snapshots" \in Files /\ "registries" \in Files
  BY DEF Files
<1>4. /\ Handler("snapshots") = "snapshots handler"
      /\ Handler("registries") = "registries handler"
  BY DEF Handler
<1>5. \A f, g \in Files : Handler(f) = Handler(g) => f = g
  BY <1>1, <1>2, <1>4
<1> QED BY <1>3, <1>4, <1>5

-----------------------------------------------------------------------------
\* Types.

\* Every step keeps the types of bootstrap.yml's state, and no task has a host
\* that has failed.
LEMMA BootTypeStep ==
  ASSUME TypeOK, BootTypeOK, Alive, ReadInv, FilesInv, [BootNext]_allVars
  PROVE  BootTypeOK' /\ Alive'
<1> USE BootConstants
<1> USE DEF Alive
<1>1. CASE StartBootstrap
  <2>1. bootstraps' \in 0..MaxPlaybooks
    <3>1. runs \in Nat /\ bootstraps \in Nat /\ runs + bootstraps < MaxPlaybooks
      BY <1>1, ConstantTypes DEF StartBootstrap, TypeOK, CountersOK, BootTypeOK
    <3> QED BY <1>1, <3>1 DEF StartBootstrap
  <2> QED BY <1>1, <2>1 DEF StartBootstrap, BootTypeOK, BootPcs
<1>2. CASE BootConfigure
  BY <1>2 DEF BootConfigure, FailOrGo, EndBootstrap, BootGoto, restUnchanged, BootTypeOK, BootPcs
<1>3. CASE BootInstall
  BY <1>3 DEF BootInstall, FailOrGo, EndBootstrap, BootGoto, RestartAll, restUnchanged, BootTypeOK, BootPcs
<1>4. CASE BootInstalled
  <2>1. bplay' \in Plays
    BY <1>4 DEF BootInstalled, NextPlay, Plays, BootTypeOK
  <2> QED BY <1>4, <2>1 DEF BootInstalled, NextPlay, EndBootstrap, BootGoto, restUnchanged, BootTypeOK, BootPcs
<1>5. CASE Finalize
  BY <1>5 DEF Finalize, EndBootstrap, BootGoto, restUnchanged, BootTypeOK, BootPcs
<1>6. CASE WriteSnapshots
  <2>1. PICK n \in Servers \ bfailed :
          \E bad \in SUBSET {n} : \E told \in SUBSET {n} :
            /\ FileOut("snapshots", {n}, bad, told)
            /\ bfailed' = bfailed \cup bad
            /\ \/ EndBootstrap("failed")
               \/ SnapshotsNext(n) /\ bad = {}
               \/ bad = {} /\ BootGoto("snapshots handler", {n})
    BY <1>6, WriteSnapshotsStep
  <2>2. UNCHANGED <<bplay, bootstraps, old>>
    BY <1>6 DEF WriteSnapshots, restUnchanged
  <2> QED BY <2>1, <2>2
      DEF FileOut, EndBootstrap, BootGoto, SnapshotsNext, Later, BootTypeOK, BootPcs
<1>7. CASE WriteRegistries
  <2>1. PICK bad \in SUBSET bhosts : \E told \in SUBSET bhosts :
          /\ FileOut("registries", bhosts, bad, told)
          /\ bfailed' = bfailed \cup bad
          /\ \/ EndBootstrap("failed")
             \/ Finish(bfailed')
             \/ BootGoto("registries handler", told)
    BY <1>7, WriteRegistriesStep
  <2>2. UNCHANGED <<bplay, bootstraps, old>>
    BY <1>7 DEF WriteRegistries, restUnchanged
  <2> QED BY <2>1, <2>2 DEF FileOut, Finish, EndBootstrap, BootGoto, BootTypeOK, BootPcs
<1>8. CASE RestartForSnapshots \/ RestartForRegistries
  <2>1. /\ UNCHANGED <<bplay, bootstraps, old, written>>
        /\ \E bad \in SUBSET bhosts :
             /\ bhosts' = bhosts \ bad /\ bfailed' = bfailed \cup bad
             /\ bpc' \in BootPcs /\ boutcome' = boutcome
             /\ read' \in SUBSET read /\ dropped' \in SUBSET (written' \ read')
    <3>1. CASE RestartForSnapshots
      BY <1>8, <3>1, RunHandlerStep, HandlerSteps
         DEF RestartForSnapshots, restUnchanged, BootPcs, ReadInv
    <3>2. CASE RestartForRegistries
      BY <1>8, <3>2, RunHandlerStep, HandlerSteps
         DEF RestartForRegistries, restUnchanged, BootPcs, ReadInv
    <3> QED BY <1>8, <3>1, <3>2
  <2> QED BY <2>1 DEF BootTypeOK
<1>9. CASE SnapshotsRestarted \/ RegistriesRestarted
  BY <1>9 DEF SnapshotsRestarted, RegistriesRestarted, SnapshotsNext, Later, Finish, NotBack,
     EndBootstrap, BootGoto, restUnchanged, BootTypeOK, BootPcs
<1>10. CASE Roll
  BY <1>10 DEF Roll, Reads, BootTypeOK
<1>11. CASE UNCHANGED allVars
  BY <1>11 DEF allVars, bootVars, BootTypeOK
<1> QED BY <1>1, <1>2, <1>3, <1>4, <1>5, <1>6, <1>7, <1>8, <1>9, <1>10, <1>11 DEF BootNext, Boot

-----------------------------------------------------------------------------
\* What serves has read its files.

\* ReadInv without sets of pairs: the hosts a handler has still to restart have
\* the file, and a node that serves has read it, lost it, or is one of them.
LEMMA ReadForm ==
  /\ ReadInv <=>
       \A f \in Files :
         /\ bpc = Handler(f) => \A n \in bhosts : <<f, n>> \in written
         /\ \A n \in up : <<f, n>> \in written =>
              <<f, n>> \in read \cup dropped \/ (bpc = Handler(f) /\ n \in bhosts)
  /\ ReadInv' <=>
       \A f \in Files :
         /\ bpc' = Handler(f) => \A n \in bhosts' : <<f, n>> \in written'
         /\ \A n \in up' : <<f, n>> \in written' =>
              <<f, n>> \in read' \cup dropped' \/ (bpc' = Handler(f) /\ n \in bhosts')
<1>1. \A f \in Files : \A n :
        <<f, n>> \in Pending <=> n \in bhosts /\ bpc = Handler(f)
  BY DEF Pending
<1>2. \A f \in Files : \A n :
        <<f, n>> \in Pending' <=> n \in bhosts' /\ bpc' = Handler(f)
  BY DEF Pending, Handler
<1>3. /\ \A p \in Pending : p = <<p[1], p[2]>> /\ p[1] \in Files
      /\ \A p \in Pending' : p = <<p[1], p[2]>> /\ p[1] \in Files
  BY DEF Pending
<1>4. ReadInv <=>
       \A f \in Files :
         /\ bpc = Handler(f) => \A n \in bhosts : <<f, n>> \in written
         /\ \A n \in up : <<f, n>> \in written =>
              <<f, n>> \in read \cup dropped \/ (bpc = Handler(f) /\ n \in bhosts)
  <2>1. Pending \subseteq written <=>
          \A f \in Files : bpc = Handler(f) => \A n \in bhosts : <<f, n>> \in written
    BY <1>1, <1>3
  <2> QED BY <1>1, <2>1 DEF ReadInv
<1>5. ReadInv' <=>
       \A f \in Files :
         /\ bpc' = Handler(f) => \A n \in bhosts' : <<f, n>> \in written'
         /\ \A n \in up' : <<f, n>> \in written' =>
              <<f, n>> \in read' \cup dropped' \/ (bpc' = Handler(f) /\ n \in bhosts')
  <2>1. Pending' \subseteq written' <=>
          \A f \in Files : bpc' = Handler(f) => \A n \in bhosts' : <<f, n>> \in written'
    BY <1>2, <1>3
  <2> QED BY <1>2, <2>1 DEF ReadInv
<1> QED BY <1>4, <1>5

\* Every step keeps it.
LEMMA ReadStep ==
  ASSUME TypeOK, BootTypeOK, Alive, ReadInv, FilesInv, [BootNext]_allVars
  PROVE  ReadInv'
<1> USE BootConstants, HandlerSteps
<1> DEFINE Handlers == {"snapshots handler", "registries handler"}
<1>1. \A f \in Files : Handler(f) \in Handlers
  BY DEF Handler
<1>2. ASSUME bpc \notin Handlers, bpc' \notin Handlers, up' \subseteq up,
             written' = written, dropped' = dropped,
             \A f \in Files : \A n \in up' : <<f, n>> \in read => <<f, n>> \in read'
      PROVE  ReadInv'
  BY <1>1, <1>2, ReadForm
<1>3. CASE StartBootstrap \/ BootConfigure \/ BootInstalled \/ Finalize
           \/ SnapshotsRestarted \/ RegistriesRestarted
  <2>1. UNCHANGED <<up, written, dropped, read>>
    BY <1>3 DEF StartBootstrap, BootConfigure, BootInstalled, Finalize, SnapshotsRestarted,
       RegistriesRestarted, restUnchanged, vars, clusterVars
  <2>2. bpc \notin Handlers /\ bpc' \notin Handlers
    BY <1>3 DEF StartBootstrap, BootConfigure, BootInstalled, Finalize, SnapshotsRestarted,
       RegistriesRestarted, FailOrGo, EndBootstrap, BootGoto, NextPlay, SnapshotsNext, Finish
  <2> QED BY <1>2, <2>1, <2>2
<1>4. CASE BootInstall
  <2>1. PICK new \in SUBSET Nodes : RestartAll(new)
    BY <1>4 DEF BootInstall, BootTypeOK
  <2>2. up' = up \ new /\ read' = {p \in read : p[2] \notin new}
    BY <2>1 DEF RestartAll
  <2>3. \A f \in Files : \A n \in up' : <<f, n>>[2] \notin new
    BY <2>2
  <2>4. \A f \in Files : \A n \in up' : <<f, n>> \in read => <<f, n>> \in read'
    BY <2>2, <2>3
  <2>5. bpc \notin Handlers /\ bpc' \notin Handlers
    BY <1>4 DEF BootInstall, FailOrGo, EndBootstrap, BootGoto
  <2> QED BY <1>2, <1>4, <2>2, <2>4, <2>5 DEF BootInstall
<1>5. ASSUME NEW f \in Files, NEW hosts, NEW bad, NEW told, FileOut(f, hosts, bad, told),
             up' = up, bpc \notin Handlers,
             (bpc' \notin Handlers /\ told = {}) \/ (bpc' = Handler(f) /\ bhosts' = told)
      PROVE  ReadInv'
  <2>1. \A g \in Files : \A m \in up : <<g, m>> \in written => <<g, m>> \in read \cup dropped
    BY <1>1, <1>5, ReadForm
  <2>2. \A g \in Files : \A m \in up' : <<g, m>> \in written' =>
          <<g, m>> \in read' \cup dropped' \/ (g = f /\ m \in told)
    BY <1>5, <2>1 DEF FileOut, TypeOK, ClusterTypeOK
  <2>3. \A g \in Files : bpc' = Handler(g) => g = f /\ bhosts' = told
    BY <1>1, <1>5
  <2>4. told # {} => bpc' = Handler(f) /\ bhosts' = told
    BY <1>5
  <2>5. \A m \in told : <<f, m>> \in written'
    BY <1>5 DEF FileOut
  <2> QED BY <2>2, <2>3, <2>4, <2>5, ReadForm
<1>6. CASE WriteSnapshots \/ WriteRegistries
  <2>1. CASE WriteSnapshots
    <3>1. PICK n \in Servers \ bfailed :
            \E bad \in SUBSET {n} : \E told \in SUBSET {n} :
              /\ FileOut("snapshots", {n}, bad, told)
              /\ \/ told = {} /\ EndBootstrap("failed")
                 \/ told = {} /\ SnapshotsNext(n)
                 \/ told = {n} /\ BootGoto("snapshots handler", {n})
      BY <2>1, WriteSnapshotsStep
    <3>2. up' = up /\ bpc \notin Handlers
      BY <2>1 DEF WriteSnapshots
    <3> QED BY <1>5, <3>1, <3>2 DEF EndBootstrap, SnapshotsNext, BootGoto
  <2>2. CASE WriteRegistries
    <3>1. PICK bad \in SUBSET bhosts : \E told \in SUBSET bhosts :
            /\ FileOut("registries", bhosts, bad, told)
            /\ \/ told = {} /\ EndBootstrap("failed")
               \/ told = {} /\ Finish(bfailed')
               \/ BootGoto("registries handler", told)
      BY <2>2, WriteRegistriesStep
    <3>2. up' = up /\ bpc \notin Handlers
      BY <2>2 DEF WriteRegistries
    <3> QED BY <1>5, <3>1, <3>2 DEF EndBootstrap, Finish, BootGoto
  <2> QED BY <1>6, <2>1, <2>2
<1>7. ASSUME NEW f \in Files, NEW where, RunHandler(f, where), bpc = Handler(f),
             where \notin Handlers, written' = written
      PROVE  ReadInv'
  <2>1. PICK bad \in SUBSET bhosts :
           /\ up' = up \ (bhosts \ bad) /\ bpc' = where /\ dropped \subseteq dropped'
           /\ \A g \in Files : \A n \in bad : g = f => <<g, n>> \in read' \cup dropped'
           /\ \A g \in Files : \A n \in up' : <<g, n>> \in read => <<g, n>> \in read'
    BY <1>7, RunHandlerStep DEF ReadInv
  <2>2. \A g \in Files : bpc = Handler(g) => g = f
    BY <1>7
  <2>3. \A g \in Files : bpc' # Handler(g)
    BY <1>1, <1>7, <2>1
  <2>4. \A g \in Files : \A n \in up' : <<g, n>> \in written' => <<g, n>> \in read' \cup dropped'
    <3>1. SUFFICES ASSUME NEW g \in Files, NEW n \in up', <<g, n>> \in written
                   PROVE  <<g, n>> \in read' \cup dropped'
      BY <1>7
    <3>2. \/ <<g, n>> \in read \/ <<g, n>> \in dropped
          \/ bpc = Handler(g) /\ n \in bhosts
      BY <2>1, <3>1, ReadForm
    <3>3. bpc = Handler(g) /\ n \in bhosts => g = f /\ n \in bad
      BY <2>1, <2>2, <3>1
    <3> QED BY <2>1, <3>1, <3>2, <3>3
  <2> QED BY <2>3, <2>4, ReadForm
<1>8. CASE RestartForSnapshots \/ RestartForRegistries
  BY <1>7, <1>8 DEF RestartForSnapshots, RestartForRegistries
<1>9. CASE Roll
  <2>1. /\ read' = {p \in read : p[2] \in up'} \cup {p \in written : p[2] \in up' \ up}
        /\ dropped' = dropped \ {p \in written : p[2] \in up' \ up}
        /\ UNCHANGED <<bpc, bhosts, written>>
    BY <1>9 DEF Roll, Reads
  <2>2. \A f \in Files : \A n : <<f, n>>[2] = n
    OBVIOUS
  <2>3. \A f \in Files : \A n \in up' : <<f, n>> \in written =>
          <<f, n>> \in read' \cup dropped' \/ (bpc = Handler(f) /\ n \in bhosts)
    <3>1. SUFFICES ASSUME NEW f \in Files, NEW n \in up', <<f, n>> \in written
                   PROVE  <<f, n>> \in read' \cup dropped' \/ (bpc = Handler(f) /\ n \in bhosts)
      OBVIOUS
    <3>2. CASE n \in up
      <4>1. <<f, n>> \in read \/ <<f, n>> \in dropped \/ (bpc = Handler(f) /\ n \in bhosts)
        BY <3>1, <3>2, ReadForm
      <4> QED BY <2>1, <2>2, <3>1, <3>2, <4>1
    <3>3. CASE n \notin up
      BY <2>1, <2>2, <3>1, <3>3
    <3> QED BY <3>2, <3>3
  <2> QED BY <2>1, <2>3, ReadForm
<1>10. CASE UNCHANGED allVars
  BY <1>10 DEF allVars, bootVars, vars, clusterVars, ReadInv, Pending, Handler
<1> QED BY <1>3, <1>4, <1>6, <1>8, <1>9, <1>10 DEF BootNext, Boot

-----------------------------------------------------------------------------
\* The install plays.

\* What an installation restarts; of the other hosts some have failed.
LEMMA BootInstallStep ==
  ASSUME BootInstall
  PROVE  \E new \in SUBSET Groups[bplay] :
           /\ up' = up \ new
           /\ EndBootstrap("failed") \/ BootGoto("installed", new)
<1> DEFINE due == (Groups[bplay] \ bfailed) \cap old
<1>1. PICK bad \in SUBSET due : \E kept \in SUBSET (due \ bad) :
        /\ RestartAll(due \ (bad \cup kept))
        /\ FailOrGo(Groups[bplay], bad, BootGoto("installed", due \ (bad \cup kept)))
  BY DEF BootInstall
<1>2. PICK kept \in SUBSET (due \ bad) :
        /\ RestartAll(due \ (bad \cup kept))
        /\ FailOrGo(Groups[bplay], bad, BootGoto("installed", due \ (bad \cup kept)))
  BY <1>1
<1> DEFINE new == due \ (bad \cup kept)
<1>3. new \in SUBSET Groups[bplay]
  OBVIOUS
<1>4. up' = up \ new /\ (EndBootstrap("failed") \/ BootGoto("installed", new))
  BY <1>2 DEF RestartAll, FailOrGo
<1> HIDE DEF new
<1> QED BY <1>3, <1>4

\* Every step keeps what they have done.
LEMMA InstallStep ==
  ASSUME TypeOK, BootTypeOK, Alive, ReadInv, FilesInv, InstallInv, [BootNext]_allVars
  PROVE  InstallInv'
<1> USE BootConstants
<1>1. bplay \in Nat /\ bplay <= Len(Groups) /\ Len(Groups) \in Nat
  BY DEF BootTypeOK, Plays
<1>2. ASSUME bfailed \subseteq bfailed', disk \subseteq disk',
             NEW i \in Plays, Configured(i)
      PROVE  Configured(i)'
  BY <1>2 DEF Configured
<1>3. CASE StartBootstrap
  BY <1>3 DEF StartBootstrap, InstallInv, Plays
<1>4. CASE BootConfigure
  <2>1. PICK bad \in SUBSET Groups[bplay] :
          /\ disk \cup (Groups[bplay] \ bad) \subseteq disk'
          /\ bfailed' = bfailed \cup bad
          /\ EndBootstrap("failed") \/ BootGoto("install", {})
    BY <1>4 DEF BootConfigure, FailOrGo
  <2>2. UNCHANGED bplay /\ bpc = "config"
    BY <1>4 DEF BootConfigure
  <2>3. \A i \in Plays : i < bplay => Configured(i)'
    BY <1>2, <2>1, <2>2 DEF InstallInv
  <2>4. Groups[bplay] \subseteq bfailed' \cup disk'
    BY <2>1
  <2>5. bpc' \in {"idle", "install"}
    BY <2>1 DEF EndBootstrap, BootGoto
  <2> QED BY <2>2, <2>3, <2>4, <2>5 DEF InstallInv, Configured
<1>5. CASE BootInstall
  <2>1. UNCHANGED <<bplay, disk>> /\ bpc = "install" /\ bfailed \subseteq bfailed'
    BY <1>5 DEF BootInstall, FailOrGo
  <2>2. \A i \in Plays : i < bplay => Configured(i)'
    BY <1>2, <2>1 DEF InstallInv
  <2>3. Configured(bplay)'
    BY <2>1 DEF InstallInv, Configured
  <2>4. bpc' \in {"idle", "installed"}
    BY <1>5, BootInstallStep DEF EndBootstrap, BootGoto
  <2> QED BY <2>1, <2>2, <2>3, <2>4 DEF InstallInv, Configured
<1>6. CASE BootInstalled
  <2>1. UNCHANGED disk /\ bfailed \subseteq bfailed' /\ bpc = "installed"
    BY <1>6 DEF BootInstalled
  <2>2. \A i \in Plays : i < bplay => Configured(i)'
    BY <1>2, <2>1 DEF InstallInv
  <2>3. Groups[bplay] \subseteq bfailed' \cup disk'
    BY <2>1 DEF InstallInv, Configured
  <2>4. \/ bpc' = "idle"
        \/ bplay < Len(Groups) /\ bplay' = bplay + 1 /\ bpc' = "config"
        \/ bplay' = Len(Groups) /\ bplay' = bplay /\ bpc' = "finalize"
    BY <1>1, <1>6 DEF BootInstalled, NextPlay, EndBootstrap, BootGoto
  <2>5. bpc' # "idle" => \A i \in Plays : i < bplay' => Configured(i)'
    <3>1. SUFFICES ASSUME bpc' # "idle", NEW i \in Plays, i < bplay'
                   PROVE  Configured(i)'
      OBVIOUS
    <3>2. i < bplay \/ i = bplay
      BY <1>1, <2>4, <3>1 DEF Plays
    <3>3. CASE i < bplay
      BY <2>2, <3>3
    <3>4. CASE i = bplay
      BY <2>3, <3>4 DEF Configured
    <3> QED BY <3>2, <3>3, <3>4
  <2> QED BY <2>3, <2>4, <2>5 DEF InstallInv, Configured
<1>7. ASSUME bpc \notin {"idle", "config", "install", "installed"},
             bpc' \notin {"config", "install", "installed"},
             bplay' = bplay, bfailed \subseteq bfailed', disk' = disk
      PROVE  InstallInv'
  <2>1. \A i \in Plays : i < bplay => Configured(i)'
    BY <1>2, <1>7 DEF InstallInv
  <2>2. Groups[bplay'] \subseteq bfailed' \cup disk'
    BY <1>7 DEF InstallInv, Configured
  <2> QED BY <1>7, <2>1, <2>2 DEF InstallInv, Configured
<1>8. CASE Finalize \/ SnapshotsRestarted \/ RegistriesRestarted
  <2>1. UNCHANGED <<bplay, disk>> /\ bfailed \subseteq bfailed'
    BY <1>8 DEF Finalize, SnapshotsRestarted, RegistriesRestarted
  <2> QED BY <1>7, <1>8, <2>1 DEF Finalize, SnapshotsRestarted, RegistriesRestarted,
      SnapshotsNext, Finish, EndBootstrap, BootGoto
<1>9. CASE RestartForSnapshots \/ RestartForRegistries
  BY <1>7, <1>9 DEF RestartForSnapshots, RestartForRegistries, RunHandler, BootGoto
<1>10. CASE WriteSnapshots
  <2>1. bfailed \subseteq bfailed' /\ bpc' \notin {"config", "install", "installed"}
    BY <1>10, WriteSnapshotsStep DEF SnapshotsNext, EndBootstrap, BootGoto
  <2> QED BY <1>7, <1>10, <2>1 DEF WriteSnapshots
<1>11. CASE WriteRegistries
  <2>1. bfailed \subseteq bfailed' /\ bpc' \notin {"config", "install", "installed"}
    BY <1>11, WriteRegistriesStep DEF Finish, EndBootstrap, BootGoto
  <2> QED BY <1>7, <1>11, <2>1 DEF WriteRegistries
<1>12. CASE Roll
  <2>1. disk \subseteq disk' /\ UNCHANGED <<bpc, bplay, bfailed>>
    BY <1>12, RollFrame DEF Roll
  <2> QED BY <2>1 DEF InstallInv, Configured
<1>13. CASE UNCHANGED allVars
  BY <1>13 DEF allVars, bootVars, vars, playVars, InstallInv, Configured
<1> QED BY <1>3, <1>4, <1>5, <1>6, <1>8, <1>9, <1>10, <1>11, <1>12, <1>13 DEF BootNext, Boot

-----------------------------------------------------------------------------
\* The files of the two last plays.

\* With no host failed, the install plays have been over every node.
LEMMA AllConfigured ==
  ASSUME TypeOK, BootTypeOK, InstallInv, bfailed = {},
         bpc \notin {"idle", "config", "install", "installed"}
  PROVE  disk = Nodes
<1>1. \A i \in Plays : Groups[i] \subseteq disk
  BY BootConstants DEF InstallInv, Configured, Plays
<1>2. \A n \in Nodes : n \in disk
  BY <1>1, BootstrapAssumption
<1> QED BY <1>2 DEF TypeOK, BootTypeOK

\* What comes after a server of the snapshot play.
LEMMA SnapshotsNextStep ==
  ASSUME boutcome # "ok", NEW n, SnapshotsNext(n), bfailed' = bfailed,
         \A m \in Servers \ bfailed : m \in Later(n) \/ <<"snapshots", m>> \in written'
  PROVE  FilesInv'
<1>1. Later(n) \subseteq Servers
  BY DEF Later
<1>2. CASE Later(n) = {}
  <2>1. bpc' = "registries" /\ bhosts' = Nodes \ bfailed /\ boutcome' # "ok"
    BY <1>2 DEF SnapshotsNext, BootGoto
  <2> QED BY <1>2, <2>1 DEF FilesInv, HasFile
<1>3. CASE Later(n) # {}
  <2>1. bpc' = "snapshots" /\ bhosts' = Later(n) /\ boutcome' # "ok"
    BY <1>3 DEF SnapshotsNext, BootGoto
  <2> QED BY <1>1, <2>1 DEF FilesInv, HasFile
<1> QED BY <1>2, <1>3

\* The end of the registry play, when the files are where they belong.
LEMMA FinishStep ==
  ASSUME TypeOK, BootTypeOK, InstallInv, Finish(bfailed'), bfailed \subseteq bfailed',
         bpc \notin {"idle", "config", "install", "installed"},
         disk' = disk,
         \A m \in Servers \ bfailed : <<"snapshots", m>> \in written',
         \A n \in Nodes \ bfailed' : <<"registries", n>> \in written'
  PROVE  FilesInv'
<1>1. bpc' = "idle" /\ (boutcome' = "ok" => bfailed' = {})
  BY DEF Finish, EndBootstrap
<1>2. SUFFICES ASSUME boutcome' = "ok"
               PROVE  /\ disk' = Nodes
                      /\ \A f \in Files : \A n \in Holders(f) : <<f, n>> \in written'
  BY <1>1 DEF FilesInv, HasFile, Holders
<1>3. bfailed' = {} /\ bfailed = {}
  BY <1>1, <1>2
<1>4. disk = Nodes
  BY <1>3, AllConfigured
<1>5. \A f \in Files : \A n \in Holders(f) : <<f, n>> \in written'
  BY <1>3 DEF Files, Holders
<1> QED BY <1>4, <1>5

\* Every step keeps the files where the plays have put them.
LEMMA FilesStep ==
  ASSUME TypeOK, BootTypeOK, TypeOK', Alive, ReadInv, InstallInv, FilesInv,
         [BootNext]_allVars
  PROVE  FilesInv'
<1>1. bpc # "idle" => boutcome # "ok"
  BY DEF FilesInv
<1>2. ASSUME bpc' \notin {"snapshots", "snapshots handler", "snapshots restarted",
                          "registries", "registries handler", "registries restarted"},
             boutcome' # "ok"
      PROVE  FilesInv'
  BY <1>2 DEF FilesInv
<1>3. CASE StartBootstrap
  BY <1>2, <1>3 DEF StartBootstrap
<1>4. CASE BootConfigure \/ BootInstall \/ BootInstalled
  BY <1>1, <1>2, <1>4 DEF BootConfigure, BootInstall, BootInstalled, FailOrGo, NextPlay,
     EndBootstrap, BootGoto
<1>5. CASE Finalize
  <2>1. CASE bpc' = "idle"
    BY <1>1, <1>2, <1>5, <2>1 DEF Finalize, EndBootstrap, BootGoto
  <2>2. CASE bpc' # "idle"
    <3>1. /\ bpc' = "snapshots" /\ bhosts' = Servers \ bfailed
          /\ bfailed' = bfailed /\ boutcome' # "ok"
      BY <1>1, <1>5, <2>2 DEF Finalize, EndBootstrap, BootGoto
    <3> QED BY <3>1 DEF FilesInv
  <2> QED BY <2>1, <2>2
<1>6. CASE WriteSnapshots
  <2>1. PICK n \in Servers \ bfailed :
          \E bad \in SUBSET {n} : \E told \in SUBSET {n} :
            /\ n \in First(bhosts)
            /\ FileOut("snapshots", {n}, bad, told)
            /\ bfailed' = bfailed \cup bad
            /\ \/ EndBootstrap("failed")
               \/ bad = {} /\ SnapshotsNext(n)
               \/ bad = {} /\ BootGoto("snapshots handler", {n})
    BY <1>6, WriteSnapshotsStep
  <2>2. bpc = "snapshots" /\ boutcome # "ok"
    BY <1>1, <1>6 DEF WriteSnapshots
  <2>3. CASE EndBootstrap("failed")
    BY <1>2, <2>3 DEF EndBootstrap
  <2>4. CASE ~EndBootstrap("failed")
    <3>1. /\ n \in First(bhosts) /\ bfailed' = bfailed /\ written \subseteq written'
          /\ <<"snapshots", n>> \in written'
          /\ SnapshotsNext(n) \/ BootGoto("snapshots handler", {n})
      BY <2>1, <2>4 DEF FileOut
    <3>2. \A m \in Servers \ bfailed : m \in Later(n) \/ <<"snapshots", m>> \in written'
      <4>1. SUFFICES ASSUME NEW m \in Servers \ bfailed, <<"snapshots", m>> \notin written'
                     PROVE  m \in Later(n)
        OBVIOUS
      <4>2. m \in bhosts /\ m # n
        BY <2>2, <3>1, <4>1 DEF FilesInv, HasFile
      <4>3. m \in Nodes /\ n \in Nodes /\ Order[m] \in Nat /\ Order[n] \in Nat
        BY <4>1, BootConstants, ClusterAssumption
      <4>4. Order[m] >= Order[n] /\ Order[m] # Order[n]
        BY <3>1, <4>2, <4>3, BootstrapAssumption DEF First
      <4> QED BY <4>1, <4>3, <4>4 DEF Later
    <3>3. CASE SnapshotsNext(n)
      BY <2>2, <3>1, <3>2, <3>3, SnapshotsNextStep
    <3>4. CASE BootGoto("snapshots handler", {n})
      <4>1. bpc' = "snapshots handler" /\ bhosts' = {n} /\ boutcome' # "ok"
        BY <2>2, <3>4 DEF BootGoto
      <4> QED BY <3>1, <3>2, <4>1 DEF FilesInv, HasFile, Later
    <3> QED BY <3>1, <3>3, <3>4
  <2> QED BY <2>3, <2>4
<1>7. CASE RestartForSnapshots \/ RestartForRegistries
  <2>1. PICK where \in {"snapshots restarted", "registries restarted"} :
          /\ written' = written
          /\ \/ bpc = "snapshots handler" /\ where = "snapshots restarted"
             \/ bpc = "registries handler" /\ where = "registries restarted"
          /\ \E bad \in SUBSET bhosts :
               /\ bhosts' = bhosts \ bad /\ bfailed' = bfailed \cup bad
               /\ bpc' = where /\ boutcome' = boutcome
    BY <1>7 DEF RestartForSnapshots, RestartForRegistries, RunHandler, BootGoto
  <2>2. boutcome' # "ok" /\ bhosts' \subseteq bhosts /\ bfailed \subseteq bfailed'
    BY <1>1, <2>1
  <2>3. CASE bpc = "snapshots handler" /\ bpc' = "snapshots restarted"
    BY <2>1, <2>2, <2>3 DEF FilesInv, HasFile, Later
  <2>4. CASE bpc = "registries handler" /\ bpc' = "registries restarted"
    BY <2>1, <2>2, <2>4 DEF FilesInv, HasFile
  <2> QED BY <2>1, <2>3, <2>4
<1>8. CASE SnapshotsRestarted
  <2>1. CASE EndBootstrap("failed")
    BY <1>2, <2>1 DEF EndBootstrap
  <2>2. CASE ~EndBootstrap("failed")
    <3>1. PICK n \in bhosts : SnapshotsNext(n)
      BY <1>8, <2>2 DEF SnapshotsRestarted
    <3>2. bpc = "snapshots restarted" /\ bfailed' = bfailed /\ written' = written
      BY <1>8, <2>2 DEF SnapshotsRestarted
    <3>3. \A m \in Servers \ bfailed : m \in Later(n) \/ <<"snapshots", m>> \in written'
      BY <3>1, <3>2 DEF FilesInv, HasFile
    <3> QED BY <1>1, <3>1, <3>2, <3>3, SnapshotsNextStep
  <2> QED BY <2>1, <2>2
<1>9. CASE WriteRegistries
  <2>1. PICK bad \in SUBSET bhosts : \E told \in SUBSET bhosts :
          /\ bhosts = Nodes \ bfailed
          /\ FileOut("registries", bhosts, bad, told)
          /\ bfailed' = bfailed \cup bad
          /\ \/ EndBootstrap("failed")
             \/ Finish(bfailed')
             \/ BootGoto("registries handler", told)
    BY <1>9, WriteRegistriesStep
  <2>2. UNCHANGED disk /\ bpc = "registries" /\ boutcome # "ok"
    BY <1>1, <1>9 DEF WriteRegistries
  <2>3. /\ \A m \in Servers \ bfailed : <<"snapshots", m>> \in written'
        /\ \A n \in Nodes \ bfailed' : <<"registries", n>> \in written'
    BY <2>1, <2>2 DEF FileOut, FilesInv, HasFile
  <2>4. CASE EndBootstrap("failed")
    BY <1>2, <2>4 DEF EndBootstrap
  <2>5. CASE Finish(bfailed')
    BY <2>1, <2>2, <2>3, <2>5, FinishStep
  <2>6. CASE bpc' = "registries handler" /\ boutcome' = boutcome
    BY <2>1, <2>2, <2>3, <2>6 DEF FilesInv, HasFile
  <2> QED BY <2>1, <2>4, <2>5, <2>6 DEF BootGoto
<1>10. CASE RegistriesRestarted
  <2>1. /\ UNCHANGED <<disk, written>> /\ bpc = "registries restarted"
        /\ bfailed \subseteq bfailed' /\ Finish(bfailed')
    BY <1>10 DEF RegistriesRestarted
  <2>2. /\ \A m \in Servers \ bfailed : <<"snapshots", m>> \in written'
        /\ \A n \in Nodes \ bfailed' : <<"registries", n>> \in written'
    BY <2>1 DEF FilesInv, HasFile
  <2> QED BY <2>1, <2>2, FinishStep
<1>11. CASE Roll
  <2>1. /\ UNCHANGED <<bpc, bhosts, bfailed, boutcome, old, written>>
        /\ disk \subseteq disk' /\ disk' \subseteq Nodes
    BY <1>11, RollFrame DEF Roll, TypeOK
  <2> QED BY <2>1 DEF FilesInv, HasFile, Later
<1>12. CASE UNCHANGED allVars
  BY <1>12 DEF allVars, bootVars, vars, playVars, FilesInv, HasFile, Later
<1> QED BY <1>3, <1>4, <1>5, <1>6, <1>7, <1>8, <1>9, <1>10, <1>11, <1>12 DEF BootNext, Boot

-----------------------------------------------------------------------------
\* The invariant, and what follows from it.

\* It holds at the start.
LEMMA BootInitial ==
  BootInit => BootInv
<1> SUFFICES ASSUME BootInit PROVE BootInv
  OBVIOUS
<1> USE BootConstants, ConstantTypes
<1>1. TypeOK
  BY DEF BootInit, Init, ClusterInit, TypeOK, ClusterTypeOK, CountersOK, Pcs
<1>2. BootTypeOK
  BY DEF BootInit, BootTypeOK, BootPcs
<1>3. CordonInv /\ ConfigInv
  BY DEF BootInit, Init, ClusterInit, CordonInv, ConfigInv
<1>4. Alive /\ InstallInv /\ FilesInv
  BY DEF BootInit, Alive, InstallInv, FilesInv
<1>5. ReadInv
  BY ReadForm DEF BootInit, Handler
<1> QED BY <1>1, <1>2, <1>3, <1>4, <1>5 DEF BootInv

\* Every step keeps it.
LEMMA BootStep ==
  BootInv /\ [BootNext]_allVars => BootInv'
<1> SUFFICES ASSUME BootInv, [BootNext]_allVars PROVE BootInv'
  OBVIOUS
<1>1. TypeOK' /\ CordonInv' /\ ConfigInv'
  BY RollingInvStep DEF BootInv
<1>2. BootTypeOK' /\ Alive'
  BY BootTypeStep DEF BootInv
<1>3. ReadInv' /\ InstallInv'
  BY ReadStep, InstallStep DEF BootInv
<1>4. FilesInv'
  BY <1>1, FilesStep DEF BootInv
<1> QED BY <1>1, <1>2, <1>3, <1>4 DEF BootInv

\* It holds in every reachable state.
THEOREM BootInvariant == BootSpec => []BootInv
<1> QED BY BootInitial, BootStep, PTL DEF BootSpec

\* Every reachable state of the two playbooks is well typed.
THEOREM BootTypeCorrect == BootSpec => [](TypeOK /\ BootTypeOK)
<1>1. BootInv => TypeOK /\ BootTypeOK
  BY DEF BootInv
<1> QED BY <1>1, BootInvariant, PTL

\* A bootstrap that reports success has put config.yaml and the two files where
\* they belong, and a k3s that runs has read the files or lost
\* the restart it needed, whatever failed meanwhile.
THEOREM SuccessfulBootstrapLoads == BootSpec => []SuccessLoads
<1>1. BootInv => SuccessLoads
  <2> SUFFICES ASSUME BootInv, boutcome = "ok" PROVE SuccessLoads
    BY DEF SuccessLoads
  <2>1. bpc = "idle" /\ disk = Nodes
    BY DEF BootInv, FilesInv
  <2>2. \A f \in Files : \A n \in Holders(f) : <<f, n>> \in written
    BY DEF BootInv, FilesInv, HasFile
  <2>3. \A f \in Files : bpc # Handler(f)
    BY <2>1 DEF Handler
  <2>4. \A f \in Files : \A n \in up : <<f, n>> \in written => <<f, n>> \in read \cup dropped
    BY <2>3, ReadForm DEF BootInv
  <2> QED BY <2>1, <2>2, <2>4 DEF SuccessLoads
<1> QED BY <1>1, BootInvariant, PTL

\* Beside bootstrap.yml, too, a full rolling restart that reports success
\* leaves no node that serves with the old config.yaml ...
THEOREM RollingBesideBootstrap == BootSpec => []SuccessRollsConfig
<1>1. BootInv => SuccessRollsConfig
  BY DEF BootInv, ConfigInv, SuccessRollsConfig
<1> QED BY <1>1, BootInvariant, PTL

\* ... and, if it drains, no node cordoned.
THEOREM UncordonedBesideBootstrap == BootSpec => []SuccessUncordons
<1>1. BootInv => SuccessUncordons
  BY DEF BootInv, CordonInv, SuccessUncordons
<1> QED BY <1>1, BootInvariant, PTL

-----------------------------------------------------------------------------
\* A first bootstrap takes the servers in turn.

\* A task of the rolling restart belongs to a run; what starts one counts.
LEMMA PlayRuns ==
  ASSUME Play
  PROVE  \/ pc = "idle" /\ runs' = runs + 1
         \/ pc # "idle" /\ runs' = runs
<1>1. CASE StartRun
  BY <1>1 DEF StartRun
<1>2. CASE ConfigureServers \/ ConfigureAgents \/ TakeHost \/ AllRestarted
  BY <1>2 DEF ConfigureServers, ConfigureAgents, Configure, TakeHost, AllRestarted
<1>3. CASE Drain \/ Restart \/ Uncordon
  BY <1>3 DEF Drain, Restart, Uncordon, batchUnchanged
<1>4. CASE AwaitMachine \/ AwaitService \/ AwaitApi \/ AwaitReady \/ AwaitEtcd
  BY <1>4 DEF AwaitMachine, AwaitService, AwaitApi, AwaitReady, AwaitEtcd, Poll, batchUnchanged
<1> QED BY <1>1, <1>2, <1>3, <1>4 DEF Play

\* Before the first run of the rolling restart, it does nothing.
LEMMA QuietPlay ==
  ASSUME TypeOK, Next, runs = 0 => pc = "idle", runs' = 0
  PROVE  ~Play /\ runs = 0 /\ pc = "idle" /\ pc' = "idle"
<1>1. runs \in Nat
  BY ConstantTypes DEF TypeOK, CountersOK
<1>2. ~Play
  BY <1>1, PlayRuns
<1>3. UNCHANGED <<runs, pc>>
  BY <1>2 DEF Next, NodeStarts, NodeCrashes, NodeNoticed, playVars
<1> QED BY <1>2, <1>3

\* Without a rolling restart and without a crash, nodes only start.
LEMMA QuietRoll ==
  ASSUME TypeOK, Next, runs = 0 => pc = "idle", runs' = 0, crashes' = 0
  PROVE  crashes = 0 /\ up \subseteq up'
<1>1. crashes \in Nat
  BY ConstantTypes DEF TypeOK, CountersOK
<1>2. ~Play
  BY QuietPlay
<1>3. PICK n \in Nodes : NodeStarts(n) \/ NodeCrashes(n) \/ NodeNoticed(n)
  BY <1>2 DEF Next
<1>4. CASE NodeStarts(n)
  BY <1>4 DEF NodeStarts, StartK3s
<1>5. CASE NodeCrashes(n)
  BY <1>1, <1>5 DEF NodeCrashes
<1>6. CASE NodeNoticed(n)
  BY <1>6 DEF NodeNoticed, NoticeDown, Heartbeat, playVars
<1> QED BY <1>3, <1>4, <1>5, <1>6

\* Every step keeps the turns.
LEMMA TurnStep ==
  ASSUME ServersApart, BootInv, BootInv', TurnInv, ServersInTurn, [BootNext]_allVars
  PROVE  TurnInv' /\ ServersInTurn'
<1> USE BootConstants
<1>1. /\ TypeOK /\ BootTypeOK /\ Alive /\ FilesInv /\ TypeOK'
      /\ bootstraps \in Nat /\ up' \subseteq Nodes
  BY DEF BootInv, BootTypeOK, TypeOK, ClusterTypeOK
\* The steps of the rolling restart and of the cluster.
<1>2. CASE Roll
  <2>1. Next /\ (runs = 0 => pc = "idle")
    BY <1>2 DEF Roll, TurnInv
  <2>2. UNCHANGED <<bpc, bplay, bhosts, bootstraps, written>>
    BY <1>2 DEF Roll
  <2>3. runs' = 0 /\ crashes' = 0 => runs = 0 /\ crashes = 0 /\ up \subseteq up'
    BY <1>1, <2>1, QuietPlay, QuietRoll
  <2>4. runs' = 0 => pc' = "idle"
    BY <1>1, <2>1, QuietPlay
  <2>5. TurnInv'
    BY <1>1, <2>2, <2>3, <2>4 DEF TurnInv, HasFile
  <2>6. ServersInTurn'
    BY <2>2, <2>3 DEF ServersInTurn
  <2> QED BY <2>5, <2>6
<1>3. CASE UNCHANGED allVars
  BY <1>3 DEF allVars, bootVars, vars, clusterVars, playVars, TurnInv, ServersInTurn, HasFile
\* The steps of bootstrap.yml.
<1>4. CASE Boot
  <2>1. UNCHANGED <<crashes, runs, pc>> /\ up' \subseteq up
    BY <1>1, <1>4, BootFrame
  <2>2. \/ StartBootstrap /\ bootstraps' = bootstraps + 1
        \/ bpc # "idle" /\ bootstraps' = bootstraps
    BY <1>4 DEF Boot, StartBootstrap, BootConfigure, BootInstall, BootInstalled, Finalize,
       WriteSnapshots, RestartForSnapshots, SnapshotsRestarted, WriteRegistries,
       RestartForRegistries, RegistriesRestarted, restUnchanged
  <2>3. (runs' = 0 => pc' = "idle") /\ ~(crashes' = 0 /\ runs' = 0 /\ bootstraps' = 0)
    <3>1. (runs = 0 => pc = "idle") /\ (crashes = 0 /\ runs = 0 /\ bootstraps = 0 => bpc = "idle")
      BY DEF TurnInv
    <3>2. runs' = runs /\ crashes' = crashes /\ pc' = pc
      BY <2>1
    <3>3. ~(crashes = 0 /\ runs = 0 /\ bootstraps' = 0)
      BY <1>1, <2>2, <3>1
    <3> QED BY <3>1, <3>2, <3>3
  <2>4. SUFFICES ASSUME crashes = 0, runs = 0, bootstraps' = 1
                 PROVE  /\ bpc' \in {"config", "install", "finalize", "snapshots",
                                     "snapshots handler", "registries",
                                     "registries handler"} => Servers \subseteq up'
                        /\ bpc' = "installed" =>
                             Servers \ up' \subseteq bhosts' /\ bhosts' \subseteq Groups[bplay']
                        /\ bpc' = "snapshots restarted" => Servers \ up' \subseteq bhosts'
                        /\ bpc' = "registries restarted" =>
                             \A n \in Servers \ up' : <<"registries", n>> \in written'
                        /\ \A m, n \in Servers \ up' :
                             m = n \/ {<<"registries", m>>, <<"registries", n>>} \subseteq written'
    BY <2>1, <2>3 DEF TurnInv, ServersInTurn, HasFile
  <2>5. CASE StartBootstrap
    <3>1. bpc' = "config" /\ up' = up /\ bootstraps = 0
      BY <1>1, <2>2, <2>4, <2>5 DEF StartBootstrap, vars, clusterVars
    <3>2. Servers \subseteq up'
      BY <2>4, <3>1 DEF TurnInv
    <3> QED BY <3>1, <3>2
  <2> DEFINE Calmly == {"config", "install", "finalize", "snapshots", "snapshots handler",
                        "registries", "registries handler"}
  <2>6. ASSUME bootstraps = 1, bpc \in Calmly PROVE Servers \subseteq up
    BY <2>4, <2>6 DEF TurnInv
  <2>7. CASE BootConfigure \/ Finalize \/ WriteSnapshots \/ WriteRegistries
    <3>1. up' = up /\ bpc \in Calmly /\ bootstraps = 1
      BY <2>4, <2>7 DEF BootConfigure, Finalize, WriteSnapshots, WriteRegistries, restUnchanged
    <3>2. bpc' \in Calmly \cup {"idle"}
      <4>1. CASE BootConfigure \/ Finalize
        BY <4>1 DEF BootConfigure, Finalize, FailOrGo, EndBootstrap, BootGoto
      <4>2. CASE WriteSnapshots
        BY <1>1, <4>2, WriteSnapshotsStep DEF SnapshotsNext, EndBootstrap, BootGoto
      <4>3. CASE WriteRegistries
        BY <1>1, <4>3, WriteRegistriesStep DEF Finish, EndBootstrap, BootGoto
      <4> QED BY <2>7, <4>1, <4>2, <4>3
    <3> QED BY <2>6, <3>1, <3>2
  <2>8. CASE BootInstall
    <3>1. PICK new \in SUBSET Groups[bplay] :
            /\ up' = up \ new
            /\ EndBootstrap("failed") \/ BootGoto("installed", new)
      BY <2>8, BootInstallStep
    <3>2. Servers \subseteq up /\ bplay' = bplay /\ bplay \in Plays
      BY <1>1, <2>4, <2>6, <2>8 DEF BootInstall, restUnchanged, BootTypeOK
    <3>3. Servers \ up' \subseteq Groups[bplay] \cap Servers
      BY <3>1, <3>2
    <3>4. \A m, n \in Servers \ up' : m = n
      BY <3>2, <3>3 DEF ServersApart
    <3>5. \/ bpc' = "idle"
          \/ /\ bpc' = "installed" /\ bhosts' \subseteq Groups[bplay']
             /\ Servers \ up' \subseteq bhosts'
      BY <3>1, <3>2 DEF EndBootstrap, BootGoto
    <3> QED BY <3>4, <3>5
  <2>9. CASE BootInstalled
    <3>1. /\ bpc = "installed" /\ up' = up /\ written' = written /\ bootstraps = 1
          /\ bplay \in Plays
      BY <1>1, <2>4, <2>9 DEF BootInstalled, restUnchanged, BootTypeOK
    <3>2. Servers \ up \subseteq bhosts /\ bhosts \subseteq Groups[bplay]
      BY <2>4, <3>1 DEF TurnInv
    <3>3. CASE EndBootstrap("failed")
      BY <2>4, <3>1, <3>3 DEF EndBootstrap, ServersInTurn
    <3>4. CASE ~EndBootstrap("failed")
      <4>1. ~(Groups[bplay] \subseteq (bhosts \cap Servers) \ up) /\ NextPlay
        BY <2>9, <3>4 DEF BootInstalled
      <4>2. \A s \in Servers \ up : Groups[bplay] = {s}
        BY <3>1, <3>2 DEF ServersApart
      <4>3. Servers \subseteq up
        BY <3>2, <4>1, <4>2
      <4>4. bpc' \in {"config", "finalize"}
        BY <4>1 DEF NextPlay, BootGoto
      <4> QED BY <3>1, <4>3, <4>4
    <3> QED BY <3>3, <3>4
  <2>10. CASE RestartForSnapshots \/ RestartForRegistries
    <3>1. PICK bad \in SUBSET bhosts :
            /\ up' = up \ (bhosts \ bad) /\ bhosts' = bhosts \ bad
            /\ \/ RestartForSnapshots /\ bpc' = "snapshots restarted"
               \/ RestartForRegistries /\ bpc' = "registries restarted"
      BY <2>10 DEF RestartForSnapshots, RestartForRegistries, RunHandler, RestartAll, BootGoto
    <3>2. Servers \subseteq up /\ written' = written
      BY <2>4, <2>6, <2>10 DEF RestartForSnapshots, RestartForRegistries, restUnchanged
    <3>3. Servers \ up' \subseteq bhosts'
      BY <3>1, <3>2
    <3>4. CASE RestartForSnapshots /\ bpc' = "snapshots restarted"
      <4>1. \A m, n \in bhosts : m = n
        BY <1>1, <3>4 DEF RestartForSnapshots, FilesInv
      <4> QED BY <3>1, <3>3, <3>4, <4>1
    <3>5. CASE RestartForRegistries /\ bpc' = "registries restarted"
      <4>1. \A n \in bhosts : <<"registries", n>> \in written'
        BY <1>1, <3>2, <3>5 DEF RestartForRegistries, FilesInv, HasFile, Alive, BootTypeOK
      <4> QED BY <3>1, <3>3, <3>5, <4>1
    <3> QED BY <3>1, <3>4, <3>5
  <2>11. CASE SnapshotsRestarted
    <3>1. /\ bpc = "snapshots restarted" /\ up' = up /\ written' = written /\ bootstraps = 1
          /\ bfailed' = bfailed \cup ((bhosts \cap Servers) \ up)
      BY <2>4, <2>11 DEF SnapshotsRestarted, restUnchanged, NotBack
    <3>2. Servers \ up \subseteq bhosts
      BY <2>4, <3>1 DEF TurnInv
    <3>3. CASE EndBootstrap("failed")
      BY <2>4, <3>1, <3>3 DEF EndBootstrap, ServersInTurn
    <3>4. CASE ~EndBootstrap("failed")
      <4>1. bfailed' = bfailed /\ bpc' \in {"snapshots", "registries"}
        BY <2>11, <3>4 DEF SnapshotsRestarted, SnapshotsNext, BootGoto
      <4>2. Servers \subseteq up
        BY <1>1, <3>1, <3>2, <4>1 DEF Alive
      <4> QED BY <3>1, <4>1, <4>2
    <3> QED BY <3>3, <3>4
  <2>12. CASE RegistriesRestarted
    <3>1. bpc' = "idle" /\ up' = up /\ written' = written /\ bootstraps = 1
      BY <2>4, <2>12 DEF RegistriesRestarted, restUnchanged, Finish, EndBootstrap
    <3> QED BY <2>4, <3>1 DEF ServersInTurn
  <2> QED BY <1>4, <2>5, <2>7, <2>8, <2>9, <2>10, <2>11, <2>12 DEF Boot
<1> QED BY <1>2, <1>3, <1>4 DEF BootNext

\* In an inventory that installs each server in a play of its own, a first
\* bootstrap never has two servers down together, but in the registry play.
THEOREM FirstBootstrapInTurn ==
  ASSUME ServersApart
  PROVE  BootSpec => []ServersInTurn
<1>1. BootInit => TurnInv /\ ServersInTurn
  BY DEF BootInit, Init, ClusterInit, TurnInv, ServersInTurn
<1>2. ServersApart /\ BootInv /\ BootInv' /\ TurnInv /\ ServersInTurn /\ [BootNext]_allVars
        => TurnInv' /\ ServersInTurn'
  BY TurnStep
<1>3. ServersApart
  OBVIOUS
<1> QED BY <1>1, <1>2, <1>3, BootInvariant, PTL DEF BootSpec
=============================================================================
