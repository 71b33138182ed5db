------------------------ MODULE RollingRestartProofs ------------------------
(***************************************************************************)
(* Proofs about RollingRestart, and about RollingHistory, for every        *)
(* inventory and every bound.                                              *)
(***************************************************************************)
EXTENDS RollingHistory, FiniteSetTheorems, TLAPS

\* What the steps need to know of the constants.
LEMMA ConstantTypes ==
  /\ Primary \in Nodes /\ Servers \subseteq Nodes /\ Agents \subseteq Nodes
  /\ MaxCrashes \in Nat /\ MaxRuns \in Nat /\ Retries \in Nat \ {0}
  BY ClusterAssumption, RollingAssumption DEF Nodes

\* The initial state has its type.
LEMMA TypeInit == Init => TypeOK
  BY ClusterAssumption, RollingAssumption
  DEF Init, TypeOK, CountersOK, ClusterInit, ClusterTypeOK, Nodes, Pcs

\* Every step keeps the counters in their bounds.
LEMMA CountersStep == CountersOK /\ [Next]_vars => CountersOK'
<1> SUFFICES ASSUME CountersOK, [Next]_vars PROVE CountersOK'
  OBVIOUS
<1> USE ConstantTypes
<1> USE DEF CountersOK, clusterVars, EndRun, Goto,
            TaskFails, TaskDone, batchUnchanged, AfterRestart
<1>1. CASE StartRun
  <2>1. runs < MaxRuns /\ runs' = runs + 1 /\ UNCHANGED <<crashes, tries>>
    BY <1>1 DEF StartRun
  <2> QED BY <2>1
<1>2. CASE ConfigureServers \/ ConfigureAgents
  <2>1. UNCHANGED <<crashes, runs>> /\ tries' = 0
    BY <1>2 DEF ConfigureServers, ConfigureAgents, Configure
  <2> QED BY <2>1
<1>3. CASE TakeHost
  BY <1>3 DEF TakeHost, First
<1>4. CASE AllRestarted
  BY <1>4 DEF AllRestarted
<1>5. CASE Drain
  BY <1>5 DEF Drain
<1>6. CASE Restart
  BY <1>6 DEF Restart, StopK3s
<1>7. CASE AwaitMachine
  BY <1>7 DEF AwaitMachine
<1>8. CASE AwaitService
  BY <1>8 DEF AwaitService
<1>9. CASE AwaitApi \/ AwaitReady \/ AwaitEtcd
  BY <1>9 DEF AwaitApi, AwaitReady, AwaitEtcd, Poll, AfterWaits
<1>10. CASE Uncordon
  BY <1>10 DEF Uncordon
<1>11. ASSUME NEW n \in Nodes,
              NodeStarts(n) \/ NodeCrashes(n) \/ NodeNoticed(n)
       PROVE  CountersOK'
  BY <1>11 DEF NodeStarts, NodeCrashes, NodeNoticed, StartK3s, StopK3s,
               NoticeDown, Heartbeat, playVars
<1>12. CASE UNCHANGED vars
  BY <1>12 DEF vars, playVars
<1> QED BY <1>1, <1>2, <1>3, <1>4, <1>5, <1>6, <1>7, <1>8, <1>9, <1>10, <1>11,
           <1>12 DEF Next, Play

\* Every step keeps the types.
LEMMA TypeStep == TypeOK /\ [Next]_vars => TypeOK'
<1> SUFFICES ASSUME TypeOK, [Next]_vars PROVE TypeOK'
  OBVIOUS
<1>0. CountersOK'
  BY CountersStep DEF TypeOK
<1> USE ConstantTypes, <1>0
<1> USE DEF TypeOK, ClusterTypeOK, Pcs, clusterVars, EndRun, Goto,
            TaskFails, TaskDone, batchUnchanged, AfterRestart
<1>1. CASE StartRun
  BY <1>1 DEF StartRun
<1>2. CASE ConfigureServers \/ ConfigureAgents
  BY <1>2 DEF ConfigureServers, ConfigureAgents, Configure
<1>3. CASE TakeHost
  BY <1>3 DEF TakeHost, First
<1>4. CASE AllRestarted
  BY <1>4 DEF AllRestarted
<1>5. CASE Drain
  BY <1>5 DEF Drain
<1>6. CASE Restart
  <2>1. pc' \in Pcs
    BY <1>6 DEF Restart, AfterStop
  <2> HIDE DEF Pcs
  <2> QED BY <1>6, <2>1 DEF Restart, StopK3s
<1>7. CASE AwaitMachine
  BY <1>7 DEF AwaitMachine
<1>8. CASE AwaitService
  BY <1>8 DEF AwaitService
<1>9. CASE AwaitApi \/ AwaitReady \/ AwaitEtcd
  BY <1>9 DEF AwaitApi, AwaitReady, AwaitEtcd, Poll, AfterWaits
<1>10. CASE Uncordon
  BY <1>10 DEF Uncordon
<1>11. ASSUME NEW n \in Nodes,
              NodeStarts(n) \/ NodeCrashes(n) \/ NodeNoticed(n)
       PROVE  TypeOK'
  BY <1>11 DEF NodeStarts, NodeCrashes, NodeNoticed, StartK3s, StopK3s,
               NoticeDown, Heartbeat, playVars
<1>12. CASE UNCHANGED vars
  BY <1>12 DEF vars, playVars
<1> QED BY <1>1, <1>2, <1>3, <1>4, <1>5, <1>6, <1>7, <1>8, <1>9, <1>10, <1>11,
           <1>12 DEF Next, Play

\* Every reachable state of the rolling restart has its type.
THEOREM TypeCorrect == Spec => []TypeOK
  BY TypeInit, TypeStep, PTL DEF Spec

-----------------------------------------------------------------------------
\* A node that fails on its own is counted.
LEMMA CrashCounts ==
  ASSUME CountersOK, NEW n, NodeCrashes(n)
  PROVE  crashes' # 0
<1>1. crashes' = crashes + 1
  BY DEF NodeCrashes
<1>2. crashes \in Nat
  BY ConstantTypes DEF CountersOK
<1> QED BY <1>1, <1>2

\* A run that starts is counted; if it is within the first, it is the first.
LEMMA StartCounts ==
  ASSUME CountersOK, StartRun
  PROVE  runs' # 0 /\ (runs' <= 1 => runs = 0)
<1>1. runs' = runs + 1
  BY DEF StartRun
<1>2. runs \in Nat
  BY ConstantTypes DEF CountersOK
<1> QED BY <1>1, <1>2

\* Every step keeps ServiceInv, whatever the Ready conditions show and whether or
\* not the operator makes the pre-flight check.
LEMMA StepService == TypeOK /\ ServiceInv /\ [Next]_vars => ServiceInv'
<1> SUFFICES ASSUME TypeOK, ServiceInv, [Next]_vars PROVE ServiceInv'
  OBVIOUS
<1> USE ConstantTypes
<1> USE DEF ServiceInv, ServiceRestart, TypeOK, ClusterTypeOK, CountersOK, Nodes,
            clusterVars, EndRun, Goto, TaskFails, TaskDone, batchUnchanged,
            AfterRestart
<1>1. CASE StartRun
  <2>1. runs' # 0 /\ (runs' <= 1 => runs = 0)
    BY <1>1, StartCounts
  <2>2. pc' = "config servers" /\ UNCHANGED <<up, crashes, host>>
    BY <1>1 DEF StartRun
  <2>3. ServiceRestart' => up = Nodes
    BY <2>1, <2>2
  <2> QED BY <2>1, <2>2, <2>3
<1>2. CASE ConfigureServers \/ ConfigureAgents
  BY <1>2 DEF ConfigureServers, ConfigureAgents, Configure
<1>3. CASE TakeHost
  BY <1>3 DEF TakeHost, First
<1>4. CASE AllRestarted
  BY <1>4 DEF AllRestarted
<1>5. CASE Drain
  BY <1>5 DEF Drain
<1>6. CASE Restart
  BY <1>6 DEF Restart, AfterStop, StopK3s
<1>7. CASE AwaitMachine
  BY <1>7 DEF AwaitMachine
<1>8. CASE AwaitService
  BY <1>8 DEF AwaitService
<1>9. CASE AwaitApi \/ AwaitReady \/ AwaitEtcd
  BY <1>9 DEF AwaitApi, AwaitReady, AwaitEtcd, Poll, AfterWaits
<1>10. CASE Uncordon
  BY <1>10 DEF Uncordon
<1>11. ASSUME NEW n \in Nodes,
              NodeStarts(n) \/ NodeCrashes(n) \/ NodeNoticed(n)
       PROVE  ServiceInv'
  <2>1. CASE NodeStarts(n)
    BY <2>1 DEF NodeStarts, StartK3s
  <2>2. CASE NodeCrashes(n)
    <3>1. crashes' # 0 /\ UNCHANGED <<pc, opts, runs>>
      BY <2>2, CrashCounts DEF NodeCrashes
    <3> QED BY <3>1
  <2>3. CASE NodeNoticed(n)
    BY <2>3 DEF NodeNoticed, NoticeDown, Heartbeat, playVars
  <2> QED BY <1>11, <2>1, <2>2, <2>3
<1>12. CASE UNCHANGED vars
  BY <1>12 DEF vars, playVars
<1> QED BY <1>1, <1>2, <1>3, <1>4, <1>5, <1>6, <1>7, <1>8, <1>9, <1>10, <1>11,
           <1>12 DEF Next, Play

\* When at most one server is down, three or more servers have their quorum.
LEMMA OneDownHasQuorum ==
  ASSUME Servers \ up \subseteq {host}, Cardinality(Servers) >= 3
  PROVE  Quorum
<1> DEFINE Voting == Servers \cap up
<1>1. /\ IsFiniteSet(Servers)
      /\ Cardinality(Servers) \in Nat
  BY ClusterAssumption, FS_CardinalityType
<1>2. /\ IsFiniteSet(Servers \ {host})
      /\ Cardinality(Servers \ {host}) >= Cardinality(Servers) - 1
      /\ Cardinality(Servers \ {host}) \in Nat
  BY <1>1, FS_RemoveElement, FS_CardinalityType
<1>3. IsFiniteSet(Voting) /\ Cardinality(Voting) \in Nat
  BY <1>1, FS_Subset, FS_CardinalityType
<1>4. Servers \ {host} \subseteq Voting
  OBVIOUS
<1>5. Cardinality(Servers \ {host}) <= Cardinality(Voting)
  BY <1>3, <1>4, FS_Subset
<1> QED BY <1>1, <1>2, <1>3, <1>5 DEF Quorum

\* With three or more servers, a first run that restarts services keeps the etcd
\* quorum, also when every Ready condition it reads is stale.
THEOREM RestartingKeepsQuorum ==
  ASSUME Cardinality(Servers) >= 3
  PROVE  Spec => []RestartKeepsQuorum
<1>1. Init => ServiceInv
  BY DEF Init, ClusterInit, ServiceInv, Nodes
<1>2. ServiceInv => RestartKeepsQuorum
  BY OneDownHasQuorum DEF ServiceInv, RestartKeepsQuorum
<1> QED BY <1>1, <1>2, StepService, TypeCorrect, PTL DEF Spec

-----------------------------------------------------------------------------
\* Every step takes a server out of service while the others serve, returns it, or
\* leaves the servers that are out alone; a reboot, a second run and a node that
\* fails on its own end the account.
LEMMA StepMaintenance ==
  ASSUME TypeOK, ServiceInv, [Next]_vars
  PROVE  [ServerMaintenance!Next]_ServersOut
<1>1. CASE ~ServiceRestart'
  <2>1. ServerMaintenance!Return
    BY <1>1 DEF ServerMaintenance!Return, ServersOut
  <2> QED BY <2>1 DEF ServerMaintenance!Next
<1>2. CASE ServiceRestart' /\ StartRun
  <2>1. runs = 0 /\ UNCHANGED <<up, crashes>>
    BY <1>2, StartCounts DEF StartRun, ServiceRestart, TypeOK, clusterVars
  <2>2. crashes = 0 /\ up = Nodes
    BY <1>2, <2>1 DEF ServiceInv, ServiceRestart
  <2>3. ServersOut = {} /\ ServersOut' = {}
    BY <2>1, <2>2 DEF ServersOut, Nodes
  <2> QED BY <2>3
<1>3. CASE ServiceRestart' /\ ~StartRun /\ ~UNCHANGED up
  <2>1. Restart \/ \E n \in Nodes : NodeStarts(n) \/ NodeCrashes(n)
    BY <1>3
    DEF Next, Play, vars, clusterVars, ConfigureServers, ConfigureAgents,
        Configure, TakeHost, AllRestarted, Drain, AwaitMachine, AwaitService,
        AwaitApi, AwaitReady, AwaitEtcd, Poll, Uncordon, NodeNoticed,
        NoticeDown, Heartbeat
  <2>2. ASSUME NEW n \in Nodes, NodeCrashes(n) PROVE FALSE
    BY <1>3, <2>2, CrashCounts DEF ServiceRestart, TypeOK
  <2>3. ServiceRestart
    BY <1>3, <2>1, <2>2
    DEF ServiceRestart, Restart, NodeStarts, batchUnchanged
  <2>4. /\ ServersOut = Servers \ up
        /\ ServersOut' = Servers \ up'
    BY <1>3, <2>3 DEF ServersOut
  <2>5. Servers \ up \subseteq {host}
    BY <2>3 DEF ServiceInv
  <2>6. CASE Restart
    <3>1. Servers \ up = {} /\ up' = up \ {host}
      BY <2>3, <2>6 DEF ServiceInv, Restart, StopK3s
    <3>2. CASE host \in Servers
      <4>1. ServerMaintenance!Take
        BY <2>4, <3>1, <3>2 DEF ServerMaintenance!Take
      <4> QED BY <4>1 DEF ServerMaintenance!Next
    <3>3. CASE host \notin Servers
      BY <2>4, <3>1, <3>3
    <3> QED BY <3>2, <3>3
  <2>7. ASSUME NEW n \in Nodes, NodeStarts(n)
        PROVE  [ServerMaintenance!Next]_ServersOut
    <3>1. up' = up \cup {n}
      BY <2>7 DEF NodeStarts, StartK3s
    <3>2. ServersOut' = ServersOut \/ ServerMaintenance!Return
      BY <2>4, <2>5, <3>1 DEF ServerMaintenance!Return
    <3> QED BY <3>2 DEF ServerMaintenance!Next
  <2> QED BY <2>1, <2>2, <2>6, <2>7
<1>4. CASE ServiceRestart' /\ ~StartRun /\ UNCHANGED up
  <2>1. UNCHANGED <<opts, runs>>
    BY <1>4
    DEF Next, Play, vars, playVars, ConfigureServers, ConfigureAgents, Configure,
        TakeHost, AllRestarted, Drain, Restart, AwaitMachine, AwaitService,
        AwaitApi, AwaitReady, AwaitEtcd, Poll, Uncordon, NodeStarts, NodeCrashes,
        NodeNoticed, batchUnchanged
  <2>2. ASSUME NEW n \in Nodes, NodeCrashes(n) PROVE FALSE
    BY <1>4, <2>2, CrashCounts DEF ServiceRestart, TypeOK
  <2>3. UNCHANGED crashes
    BY <1>4, <2>2
    DEF Next, Play, vars, clusterVars, ConfigureServers, ConfigureAgents, Configure,
        TakeHost, AllRestarted, Drain, Restart, AwaitMachine, AwaitService,
        AwaitApi, AwaitReady, AwaitEtcd, Poll, Uncordon, NodeStarts,
        NodeNoticed, NoticeDown, Heartbeat
  <2> QED BY <1>4, <2>1, <2>3 DEF ServersOut, ServiceRestart
<1> QED BY <1>1, <1>2, <1>3, <1>4

\* A first run that restarts services is a rolling maintenance of the servers, also
\* when every Ready condition it reads is stale.
THEOREM RestartingImplementsMaintenance == Spec => RestartsServers
<1>1. Init => ServiceInv /\ ServerMaintenance!Init
  BY DEF Init, ClusterInit, ServiceInv, ServersOut, ServerMaintenance!Init, Nodes
<1>2. TypeOK /\ ServiceInv /\ [Next]_vars => [ServerMaintenance!Next]_ServersOut
  BY StepMaintenance
<1> QED BY <1>1, <1>2, StepService, TypeCorrect, PTL
        DEF Spec, RestartsServers, ServerMaintenance!Spec

-----------------------------------------------------------------------------
\* A behaviour with the history is a behaviour of the rolling restart.
LEMMA HistoryStep == [HistoryNext]_historyVars => [Next]_vars
  BY DEF HistoryNext, historyVars

THEOREM HistoryImplementsRestart == HistorySpec => Spec
  BY HistoryStep, PTL DEF HistorySpec, HistoryInit, Spec

\* What was said of a run that is not misled is no longer said once it is.
LEMMA MisledStays ==
  ASSUME misled \in BOOLEAN, [HistoryNext]_historyVars, ~misled'
  PROVE  /\ ~misled
         /\ StartRun => Stale = {}
         /\ AwaitReady /\ pc' \notin {"ready", "idle"} => host \notin Stale
<1>1. CASE HistoryNext
  BY <1>1 DEF HistoryNext, CheckMisled, WaitMisled
<1>2. CASE UNCHANGED historyVars
  <2>1. ~misled /\ UNCHANGED <<pc, runs>>
    BY <1>2 DEF historyVars, vars, playVars
  <2>2. ~StartRun
    BY <2>1 DEF StartRun
  <2>3. AwaitReady => pc' = "ready"
    BY <2>1 DEF AwaitReady, Poll
  <2> QED BY <2>1, <2>2, <2>3
<1> QED BY <1>1, <1>2

\* Every step keeps OneDownInv, if the operator makes the pre-flight check.
LEMMA StepOneDown ==
  ASSUME Preflight
  PROVE  TypeOK /\ misled \in BOOLEAN /\ OneDownInv /\ [HistoryNext]_historyVars
           => OneDownInv'
<1> SUFFICES ASSUME TypeOK, misled \in BOOLEAN, OneDownInv,
                    [HistoryNext]_historyVars, crashes' = 0, ~misled'
             PROVE  OneDownInv'
  BY DEF OneDownInv, Undeceived
<1>0. [Next]_vars /\ ~misled
  BY HistoryStep, MisledStays
<1> USE ConstantTypes
<1> USE DEF OneDownInv, Undeceived, Calm, TypeOK, ClusterTypeOK, Nodes, clusterVars,
            EndRun, Goto, TaskFails, TaskDone, batchUnchanged, AfterRestart
<1>1. CASE StartRun
  <2>1. Nodes \subseteq ready /\ Stale = {}
    BY <1>1, MisledStays DEF StartRun
  <2>2. up = Nodes
    BY <2>1 DEF Stale
  <2> QED BY <1>1, <2>2 DEF StartRun
<1>2. CASE ConfigureServers \/ ConfigureAgents
  BY <1>0, <1>2 DEF ConfigureServers, ConfigureAgents, Configure
<1>3. CASE TakeHost
  BY <1>0, <1>3 DEF TakeHost, First
<1>4. CASE AllRestarted
  BY <1>0, <1>4 DEF AllRestarted
<1>5. CASE Drain
  BY <1>0, <1>5 DEF Drain
<1>6. CASE Restart
  BY <1>0, <1>6 DEF Restart, AfterStop, StopK3s
<1>7. CASE AwaitMachine
  BY <1>0, <1>7 DEF AwaitMachine
<1>8. CASE AwaitService
  BY <1>0, <1>8 DEF AwaitService
<1>9. CASE AwaitReady
  <2>1. UNCHANGED <<up, host, crashes>> /\ pc = "ready"
    BY <1>9 DEF AwaitReady, Poll
  <2>2. CASE pc' \in {"ready", "idle"}
    BY <1>0, <2>1, <2>2
  <2>3. CASE pc' \notin {"ready", "idle"}
    <3>1. host \in ready /\ host \notin Stale
      BY <1>9, <2>3, MisledStays DEF AwaitReady, Poll
    <3>2. host \in up
      BY <3>1 DEF Stale
    <3>3. Nodes \ up \subseteq {host} /\ up \subseteq Nodes
      BY <1>0, <2>1
    <3>4. up = Nodes
      <4>1. \A n \in Nodes : n \in up
        BY <3>2, <3>3
      <4> HIDE DEF Nodes
      <4> QED BY <3>3, <4>1
    <3> QED BY <2>1, <3>4
  <2> QED BY <2>2, <2>3
<1>10. CASE AwaitApi \/ AwaitEtcd
  BY <1>0, <1>10 DEF AwaitApi, AwaitEtcd, Poll, AfterWaits
<1>11. CASE Uncordon
  BY <1>0, <1>11 DEF Uncordon
<1>12. ASSUME NEW n \in Nodes,
              NodeStarts(n) \/ NodeCrashes(n) \/ NodeNoticed(n)
       PROVE  OneDownInv'
  <2>1. CASE NodeStarts(n)
    BY <1>0, <2>1 DEF NodeStarts, StartK3s
  <2>2. CASE NodeCrashes(n)
    BY <2>2, CrashCounts
  <2>3. CASE NodeNoticed(n)
    BY <1>0, <2>3 DEF NodeNoticed, NoticeDown, Heartbeat, playVars
  <2> QED BY <1>12, <2>1, <2>2, <2>3
<1>13. CASE UNCHANGED vars
  BY <1>0, <1>13 DEF vars, playVars
<1> QED BY <1>0, <1>1, <1>2, <1>3, <1>4, <1>5, <1>6, <1>7, <1>8, <1>9, <1>10,
           <1>11, <1>12, <1>13 DEF Next, Play

\* The invariant of HistorySpec, with the types of its variables.
LEMMA HistoryInvariants ==
  ASSUME Preflight
  PROVE  HistorySpec => [](TypeOK /\ misled \in BOOLEAN /\ OneDownInv)
<1>1. HistoryInit => misled \in BOOLEAN /\ OneDownInv
  BY DEF HistoryInit, Init, ClusterInit, OneDownInv, Undeceived, Nodes
<1>2. misled \in BOOLEAN /\ [HistoryNext]_historyVars => (misled \in BOOLEAN)'
  BY DEF HistoryNext, historyVars
<1> QED BY <1>1, <1>2, StepOneDown, HistoryImplementsRestart, TypeCorrect, PTL
        DEF HistorySpec

\* With three or more servers and the pre-flight check a rolling restart keeps the
\* etcd quorum until a node fails by itself or a stale Ready condition misleads it,
\* with reboots or without, over any number of runs and aborts.
THEOREM RollingKeepsQuorum ==
  ASSUME Preflight, Cardinality(Servers) >= 3
  PROVE  HistorySpec => []QuorumUnlessMisled
<1>1. OneDownInv => QuorumUnlessMisled
  BY OneDownHasQuorum DEF OneDownInv, QuorumUnlessMisled, Nodes
<1> QED BY <1>1, HistoryInvariants, PTL

-----------------------------------------------------------------------------
\* Every step takes the next node out of service, returns it, or leaves the set of
\* nodes out of service alone; a node that fails on its own and a stale condition
\* that is believed end the account.
LEMMA StepRolling ==
  ASSUME TypeOK, misled \in BOOLEAN, OneDownInv, [HistoryNext]_historyVars
  PROVE  [Maintenance!Next]_OutByPlaybook
<1>1. CASE ~Undeceived'
  <2>1. Maintenance!Return
    BY <1>1 DEF Maintenance!Return, OutByPlaybook
  <2> QED BY <2>1 DEF Maintenance!Next
<1>2. CASE Undeceived' /\ ~UNCHANGED <<up, crashes>>
  <2>0. [Next]_vars /\ ~misled /\ crashes' = 0
    BY <1>2, HistoryStep, MisledStays DEF Undeceived
  <2>1. Restart \/ \E n \in Nodes : NodeStarts(n) \/ NodeCrashes(n)
    BY <1>2, <2>0
    DEF Next, Play, vars, clusterVars, StartRun, ConfigureServers,
        ConfigureAgents, Configure, TakeHost, AllRestarted, Drain,
        AwaitMachine, AwaitService, AwaitApi, AwaitReady, AwaitEtcd, Poll,
        Uncordon, NodeNoticed, NoticeDown, Heartbeat
  <2>2. ASSUME NEW n \in Nodes, NodeCrashes(n) PROVE FALSE
    BY <2>0, <2>2, CrashCounts DEF TypeOK
  <2>3. Undeceived
    BY <2>0, <2>1, <2>2 DEF Undeceived, Restart, NodeStarts, batchUnchanged
  <2>4. /\ OutByPlaybook = Nodes \ up
        /\ OutByPlaybook' = Nodes \ up'
    BY <1>2, <2>3 DEF OutByPlaybook
  <2>5. Nodes \ up \subseteq {host} /\ host \in Nodes /\ up \subseteq Nodes
    BY <2>3 DEF OneDownInv, TypeOK, ClusterTypeOK
  <2>6. CASE Restart
    <3>1. up = Nodes /\ up' = up \ {host}
      BY <2>3, <2>5, <2>6 DEF OneDownInv, Calm, Restart, StopK3s
    <3>2. Maintenance!Take
      BY <2>4, <2>5, <3>1 DEF Maintenance!Take
    <3> QED BY <3>2 DEF Maintenance!Next
  <2>7. ASSUME NEW n \in Nodes, NodeStarts(n)
        PROVE  Maintenance!Next
    <3>1. n \notin up /\ up' = up \cup {n}
      BY <2>7 DEF NodeStarts, StartK3s
    <3>2. Maintenance!Return
      BY <2>4, <2>5, <3>1 DEF Maintenance!Return
    <3> QED BY <3>2 DEF Maintenance!Next
  <2> QED BY <2>1, <2>2, <2>6, <2>7
<1>3. CASE Undeceived' /\ UNCHANGED <<up, crashes>>
  <2>1. Undeceived
    BY <1>3, MisledStays DEF Undeceived
  <2> QED BY <1>3, <2>1 DEF OutByPlaybook
<1> QED BY <1>1, <1>2, <1>3

\* With the pre-flight check the rolling restart is a rolling maintenance until a
\* node fails by itself or a stale Ready condition misleads it.
THEOREM RollingImplementsMaintenance ==
  ASSUME Preflight
  PROVE  HistorySpec => RollsUnlessMisled
<1>1. HistoryInit => Maintenance!Init
  BY DEF HistoryInit, Init, ClusterInit, OutByPlaybook, Maintenance!Init
<1>2. TypeOK /\ misled \in BOOLEAN /\ OneDownInv /\ [HistoryNext]_historyVars
        => [Maintenance!Next]_OutByPlaybook
  BY StepRolling
<1> QED BY <1>1, <1>2, HistoryInvariants, PTL
        DEF HistorySpec, RollsUnlessMisled, Maintenance!Spec

-----------------------------------------------------------------------------
\* Every step keeps CordonInv, whatever crashes and however stale the Ready
\* conditions are.
LEMMA StepCordon == TypeOK /\ CordonInv /\ [Next]_vars => CordonInv'
<1> SUFFICES ASSUME TypeOK, CordonInv, [Next]_vars PROVE CordonInv'
  OBVIOUS
<1> USE ConstantTypes
<1> USE DEF CordonInv, TypeOK, ClusterTypeOK, Nodes, clusterVars, EndRun,
            Goto, TaskFails, TaskDone, batchUnchanged, AfterRestart
<1>1. CASE StartRun
  BY <1>1 DEF StartRun
<1>2. CASE ConfigureServers \/ ConfigureAgents
  BY <1>2 DEF ConfigureServers, ConfigureAgents, Configure
<1>3. CASE TakeHost
  BY <1>3 DEF TakeHost, First
<1>4. CASE AllRestarted
  BY <1>4 DEF AllRestarted
<1>5. CASE Drain
  BY <1>5 DEF Drain
<1>6. CASE Restart
  BY <1>6 DEF Restart, AfterStop
<1>7. CASE AwaitMachine
  BY <1>7 DEF AwaitMachine
<1>8. CASE AwaitService
  BY <1>8 DEF AwaitService
<1>9. CASE AwaitApi \/ AwaitReady \/ AwaitEtcd
  BY <1>9 DEF AwaitApi, AwaitReady, AwaitEtcd, Poll, AfterWaits
<1>10. CASE Uncordon
  BY <1>10 DEF Uncordon
<1>11. ASSUME NEW n \in Nodes,
              NodeStarts(n) \/ NodeCrashes(n) \/ NodeNoticed(n)
       PROVE  CordonInv'
  BY <1>11 DEF NodeStarts, NodeCrashes, NodeNoticed, NoticeDown, Heartbeat,
               playVars
<1>12. CASE UNCHANGED vars
  BY <1>12 DEF vars, playVars
<1> QED BY <1>1, <1>2, <1>3, <1>4, <1>5, <1>6, <1>7, <1>8, <1>9, <1>10, <1>11,
           <1>12 DEF Next, Play

\* A full run with drain that reports success leaves no node cordoned.
THEOREM SuccessfulRunUncordons == Spec => []SuccessUncordons
<1>1. Init => CordonInv
  BY DEF Init, ClusterInit, CordonInv
<1>2. CordonInv => SuccessUncordons
  BY DEF CordonInv, SuccessUncordons
<1> QED BY <1>1, <1>2, StepCordon, TypeCorrect, PTL DEF Spec

-----------------------------------------------------------------------------
\* Every step keeps ConfigInv, whatever crashes and however stale the Ready
\* conditions are: a k3s process that starts has read the file that is there.
LEMMA StepConfig == TypeOK /\ ConfigInv /\ [Next]_vars => ConfigInv'
<1> SUFFICES ASSUME TypeOK, ConfigInv, [Next]_vars PROVE ConfigInv'
  OBVIOUS
<1> USE ConstantTypes
<1> USE DEF ConfigInv, TypeOK, ClusterTypeOK, clusterVars, EndRun,
            Goto, TaskFails, TaskDone, batchUnchanged, AfterRestart
<1>1. CASE StartRun
  BY <1>1 DEF StartRun
<1>2. CASE ConfigureServers
  BY <1>2 DEF ConfigureServers, Configure, Nodes
<1>3. CASE ConfigureAgents
  BY <1>3 DEF ConfigureAgents, Configure, Nodes
<1>4. CASE TakeHost
  BY <1>4 DEF TakeHost, First
<1>5. CASE AllRestarted
  BY <1>5 DEF AllRestarted
<1>6. CASE Drain
  BY <1>6 DEF Drain
<1>7. CASE Restart
  BY <1>7 DEF Restart, AfterStop, StopK3s
<1>8. CASE AwaitMachine
  BY <1>8 DEF AwaitMachine
<1>9. CASE AwaitService
  BY <1>9 DEF AwaitService
<1>10. CASE AwaitApi \/ AwaitReady \/ AwaitEtcd
  BY <1>10 DEF AwaitApi, AwaitReady, AwaitEtcd, Poll, AfterWaits
<1>11. CASE Uncordon
  BY <1>11 DEF Uncordon
<1>12. ASSUME NEW n \in Nodes,
              NodeStarts(n) \/ NodeCrashes(n) \/ NodeNoticed(n)
       PROVE  ConfigInv'
  <2>1. CASE NodeStarts(n)
    BY <2>1 DEF NodeStarts, StartK3s
  <2>2. CASE NodeCrashes(n)
    BY <2>2 DEF NodeCrashes, StopK3s
  <2>3. CASE NodeNoticed(n)
    BY <2>3 DEF NodeNoticed, NoticeDown, Heartbeat, playVars
  <2> QED BY <1>12, <2>1, <2>2, <2>3
<1>13. CASE UNCHANGED vars
  BY <1>13 DEF vars, playVars
<1> QED BY <1>1, <1>2, <1>3, <1>4, <1>5, <1>6, <1>7, <1>8, <1>9, <1>10, <1>11,
           <1>12, <1>13 DEF Next, Play

\* After a full run that reports success every node that serves has read the new
\* configuration, for any inventory, crashes and aborted runs.
THEOREM SuccessfulRunRollsConfig == Spec => []SuccessRollsConfig
<1>1. Init => ConfigInv
  BY DEF Init, ClusterInit, ConfigInv
<1>2. ConfigInv => SuccessRollsConfig
  BY DEF ConfigInv, SuccessRollsConfig
<1> QED BY <1>1, <1>2, StepConfig, TypeCorrect, PTL DEF Spec

-----------------------------------------------------------------------------
\* The hosts that are left can be counted, and taking some away leaves no more.
LEMMA LeftCounts ==
  ASSUME TypeOK
  PROVE  /\ IsFiniteSet(left) /\ Cardinality(left) \in Nat
         /\ \A S : /\ Cardinality(left \ S) \in Nat
                  /\ Cardinality(left \ S) <= Cardinality(left)
         /\ \A n \in left : Cardinality(left \ {n}) = Cardinality(left) - 1
<1>1. IsFiniteSet(Nodes)
  BY ClusterAssumption, FS_Union DEF Nodes
<1>2. left \subseteq Nodes
  BY DEF TypeOK
<1>3. IsFiniteSet(left)
  BY <1>1, <1>2, FS_Subset
<1>4. ASSUME NEW S
      PROVE  /\ Cardinality(left \ S) \in Nat
             /\ Cardinality(left \ S) <= Cardinality(left)
  BY <1>3, FS_Subset, FS_CardinalityType
<1>5. ASSUME NEW n \in left PROVE Cardinality(left \ {n}) = Cardinality(left) - 1
  BY <1>3, FS_RemoveElement
<1> QED BY <1>3, <1>4, <1>5, FS_CardinalityType

\* The numbers of the tasks, of phase 1 and of a batch.
LEMMA TasksOfPhase1 ==
  TasksAt["config servers"] = 3 /\ TasksAt["config agents"] = 2
BY DEF TasksAt, Pcs

LEMMA TasksOfBatch ==
  /\ TasksAt["next"] = 1 /\ TasksAt["uncordon"] = 2 /\ TasksAt["etcd"] = 3
  /\ TasksAt["ready"] = 4 /\ TasksAt["api"] = 5 /\ TasksAt["service"] = 6
  /\ TasksAt["reboot"] = 7 /\ TasksAt["restart"] = 8 /\ TasksAt["drain"] = 9
BY DEF TasksAt, Pcs

\* A task that fails, and a run that is over, leave no task at all.
LEMMA EndIsShorter ==
  ASSUME TypeOK, pc # "idle", pc' = "idle"
  PROVE  Shorter
<1>1. TasksAt[pc] \in {1, 2, 3, 4, 5, 6, 7, 8, 9}
  BY DEF TypeOK, TasksAt, Pcs
<1>2. TasksLeft' = 0 /\ TasksLeft > 0
  BY <1>1, LeftCounts DEF TasksLeft
<1> QED BY <1>2 DEF Shorter

\* A task that is done leaves the later ones of the same host.
LEMMA LaterIsShorter ==
  ASSUME TypeOK, pc # "idle", pc' # "idle", left' \subseteq left,
         TasksAt[pc'] < TasksAt[pc], TasksAt[pc'] \in Nat, TasksAt[pc] \in Nat
  PROVE  Shorter
<1>1. left' = left \ (left \ left')
  OBVIOUS
<1>2. /\ Cardinality(left') <= Cardinality(left)
      /\ Cardinality(left') \in Nat /\ Cardinality(left) \in Nat
  BY <1>1, LeftCounts
<1> QED BY <1>2 DEF Shorter, TasksLeft

\* One more poll is one of Retries.
LEMMA PollIsShorter ==
  ASSUME TypeOK, NEW here, NEW cond, NEW where, Poll(here, cond, where),
         here # "idle", where # "idle",
         TasksAt[where] < TasksAt[here], TasksAt[where] \in Nat, TasksAt[here] \in Nat
  PROVE  Shorter
<1>1. pc = here /\ left' = left
  BY DEF Poll, batchUnchanged
<1>2. CASE tries' = tries + 1 /\ tries + 1 < Retries /\ pc' = pc
  <2>1. TasksLeft' = TasksLeft
    BY <1>1, <1>2 DEF TasksLeft
  <2> QED BY <1>2, <2>1 DEF Shorter
<1>3. CASE pc' = "idle"
  BY <1>1, <1>3, EndIsShorter
<1>4. CASE pc' = where
  BY <1>1, <1>4, LaterIsShorter
<1> QED
  BY <1>2, <1>3, <1>4 DEF Poll, TaskDone, TaskFails, Goto, EndRun

\* Every step of a run leaves it shorter.
LEMMA PlayIsShorter ==
  ASSUME TypeOK, pc # "idle", Play
  PROVE  Shorter
<1> USE DEF TaskDone, TaskFails, Goto, EndRun, batchUnchanged
<1>1. CASE ConfigureServers \/ ConfigureAgents
  <2>1. left' \subseteq left
    BY <1>1 DEF ConfigureServers, ConfigureAgents, Configure
  <2>2. \/ pc' = "idle"
        \/ pc = "config servers" /\ pc' = "config agents"
        \/ pc = "config agents" /\ pc' = "next"
    BY <1>1 DEF ConfigureServers, ConfigureAgents, Configure
  <2>3. CASE pc' = "idle"
    BY <2>3, EndIsShorter
  <2>4. CASE pc = "config servers" /\ pc' = "config agents"
    <3>1. TasksAt[pc] = 3 /\ TasksAt[pc'] = 2 /\ pc' # "idle"
      BY <2>4, TasksOfPhase1
    <3> QED BY <2>1, <3>1, LaterIsShorter
  <2>5. CASE pc = "config agents" /\ pc' = "next"
    <3>1. TasksAt[pc] = 2 /\ TasksAt[pc'] = 1 /\ pc' # "idle"
      BY <2>5, TasksOfPhase1, TasksOfBatch
    <3> QED BY <2>1, <3>1, LaterIsShorter
  <2> QED BY <2>2, <2>3, <2>4, <2>5
<1>2. CASE TakeHost
  <2>1. host' \in left /\ left' = left \ {host'} /\ pc = "next"
    BY <1>2 DEF TakeHost, First
  <2>2. pc' \in {"drain", "restart"}
    BY <1>2 DEF TakeHost
  <2>3. /\ Cardinality(left') = Cardinality(left) - 1
        /\ Cardinality(left) \in Nat
    BY <2>1, LeftCounts
  <2>4. TasksAt[pc] = 1 /\ TasksAt[pc'] \in 8..9 /\ pc' # "idle"
    BY <2>1, <2>2, TasksOfBatch
  <2> QED BY <2>1, <2>2, <2>3, <2>4 DEF Shorter, TasksLeft
<1>3. CASE AllRestarted
  BY <1>3, EndIsShorter DEF AllRestarted
<1>4. CASE Drain
  <2>1. pc = "drain" /\ left' = left /\ pc' \in {"idle", "restart"}
    BY <1>4 DEF Drain
  <2> QED BY <2>1, TasksOfBatch, EndIsShorter, LaterIsShorter
<1>5. CASE Restart
  <2>1. pc = "restart" /\ left' = left /\ pc' \in {"reboot", "service", "ready"}
    BY <1>5 DEF Restart, AfterStop
  <2> QED BY <2>1, TasksOfBatch, LaterIsShorter
<1>6. CASE AwaitMachine
  <2>1. pc = "reboot" /\ left' = left /\ pc' \in {"idle", "api", "ready"}
    BY <1>6 DEF AwaitMachine, AfterRestart
  <2> QED BY <2>1, TasksOfBatch, EndIsShorter, LaterIsShorter
<1>7. CASE AwaitService
  <2>1. pc = "service" /\ left' = left /\ pc' \in {"idle", "api", "ready"}
    BY <1>7 DEF AwaitService, AfterRestart
  <2> QED BY <2>1, TasksOfBatch, EndIsShorter, LaterIsShorter
<1>8. CASE AwaitApi
  BY <1>8, TasksOfBatch, PollIsShorter DEF AwaitApi
<1>9. CASE AwaitReady
  <2> DEFINE where == IF host \in Servers THEN "etcd" ELSE AfterWaits
  <2>1. where \in {"etcd", "uncordon", "next"}
    BY DEF AfterWaits
  <2>2. Poll("ready", ApiUp /\ host \in ready, where)
    BY <1>9 DEF AwaitReady
  <2> HIDE DEF where
  <2> QED BY <2>1, <2>2, TasksOfBatch, PollIsShorter
<1>10. CASE AwaitEtcd
  <2>1. AfterWaits \in {"uncordon", "next"}
    BY DEF AfterWaits
  <2> QED BY <1>10, <2>1, TasksOfBatch, PollIsShorter DEF AwaitEtcd
<1>11. CASE Uncordon
  <2>1. pc = "uncordon" /\ left' = left /\ pc' \in {"idle", "next"}
    BY <1>11 DEF Uncordon
  <2> QED BY <2>1, TasksOfBatch, EndIsShorter, LaterIsShorter
<1>12. CASE StartRun
  BY <1>12 DEF StartRun
<1> QED BY <1>1, <1>2, <1>3, <1>4, <1>5, <1>6, <1>7, <1>8, <1>9, <1>10, <1>11,
           <1>12 DEF Play

\* A run that starts has at most nine tasks for each of its hosts, and phase 1.
LEMMA StartIsBounded ==
  ASSUME TypeOK, [Next]_vars, pc = "idle"
  PROVE  TasksLeft' <= 9 * Cardinality(limit') + 3
<1>1. CASE StartRun
  <2>1. pc' = "config servers" /\ left' = limit'
    BY <1>1 DEF StartRun
  <2>2. limit' \in SUBSET Nodes
    BY <1>1, ConstantTypes DEF StartRun, Nodes
  <2>3. Cardinality(limit') \in Nat
    BY <2>2, ClusterAssumption, FS_Union, FS_Subset, FS_CardinalityType DEF Nodes
  <2>4. TasksAt[pc'] = 3 /\ pc' # "idle"
    BY <2>1, TasksOfPhase1
  <2>5. TasksLeft' = 9 * Cardinality(limit') + 3
    BY <2>1, <2>4 DEF TasksLeft
  <2> QED BY <2>3, <2>5
<1>2. CASE ~StartRun
  <2>1. pc' = "idle" /\ limit' = limit
    BY <1>2 DEF Next, Play, ConfigureServers, ConfigureAgents, Configure, TakeHost,
       AllRestarted, Drain, Restart, AwaitMachine, AwaitService, AwaitApi,
       AwaitReady, AwaitEtcd, Poll, Uncordon, NodeStarts, NodeCrashes, NodeNoticed,
       vars, playVars
  <2>2. Cardinality(limit) \in Nat
    BY ClusterAssumption, FS_Union, FS_Subset, FS_CardinalityType DEF Nodes, TypeOK
  <2> QED BY <2>1, <2>2 DEF TasksLeft
<1> QED BY <1>1, <1>2

\* Whatever the nodes do beside it, a run of n hosts is over after at most
\* (9n + 3) * Retries steps: no host's failure makes the playbook go back.
THEOREM EveryRunIsBounded == Spec => RunAdvances
<1>1. TypeOK /\ [Next]_vars =>
        [ IF pc = "idle"
          THEN TasksLeft' <= 9 * Cardinality(limit') + 3
          ELSE IF Play THEN Shorter ELSE UNCHANGED <<pc, left, tries>> ]_vars
  <2> SUFFICES ASSUME TypeOK, [Next]_vars, pc # "idle", ~Play
               PROVE  UNCHANGED <<pc, left, tries>>
    BY StartIsBounded, PlayIsShorter
  <2> QED BY DEF Next, NodeStarts, NodeCrashes, NodeNoticed, vars, playVars
<1> QED BY <1>1, TypeCorrect, PTL DEF Spec, RunAdvances
=============================================================================
