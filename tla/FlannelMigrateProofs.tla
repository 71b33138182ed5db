------------------------ MODULE FlannelMigrateProofs ------------------------
(***************************************************************************)
(* Proofs about FlannelMigrate for every inventory and every bound.        *)
(***************************************************************************)
EXTENDS FlannelMigrate, TLAPS

\* What the steps need to know of the constants.
LEMMA ConstantTypes ==
  /\ Primary \in Nodes /\ Servers \subseteq Nodes /\ Agents \subseteq Nodes
  /\ Nodes = Servers \cup Agents /\ Servers \cap Agents = {}
  /\ MaxCrashes \in Nat /\ MaxRuns \in Nat
  BY ClusterAssumption, MigrateAssumption DEF Nodes

\* The initial state has its type.
LEMMA TypeInit == Init => TypeOK
  BY ConstantTypes
  DEF Init, TypeOK, ClusterInit, ClusterTypeOK, Block

\* Every step keeps the types.
LEMMA TypeStep == TypeOK /\ [Next]_vars => TypeOK'
<1> SUFFICES ASSUME TypeOK, [Next]_vars PROVE TypeOK'
  OBVIOUS
<1> USE ConstantTypes
<1> USE DEF TypeOK, ClusterTypeOK, Block, clusterVars, nodeState, Goto
<1>1. CASE StartRun
  BY <1>1 DEF StartRun
<1>2. CASE TakeHost
  BY <1>2 DEF TakeHost, First
<1>3. CASE AllMigrated \/ TaskFails
  BY <1>3 DEF AllMigrated, TaskFails
<1>4. CASE Check
  BY <1>4 DEF Check
<1>5. CASE Cordon \/ Drain
  BY <1>5 DEF Cordon, Drain
<1>6. CASE Stop
  BY <1>6 DEF Stop, StopK3s
<1>7. CASE ReplaceUnit \/ Reload
  BY <1>7 DEF ReplaceUnit, Reload
<1>8. CASE RemoveVxlan
  BY <1>8 DEF RemoveVxlan
<1>9. CASE Start
  BY <1>9 DEF Start
<1>10. CASE AwaitService \/ AwaitReady \/ AssertNoVxlan
  BY <1>10 DEF AwaitService, AwaitReady, AssertNoVxlan
<1>11. CASE Uncordon
  BY <1>11 DEF Uncordon
<1>12. ASSUME NEW n \in Nodes, NodeStarts(n)
       PROVE  TypeOK'
  BY <1>12 DEF NodeStarts, StartK3s
<1>13. ASSUME NEW n \in Nodes, NodeNoticed(n)
       PROVE  TypeOK'
  BY <1>13 DEF NodeNoticed, NoticeDown, Heartbeat, playVars
<1>14. CASE UNCHANGED vars
  BY <1>14 DEF vars, playVars
<1> QED BY <1>1, <1>2, <1>3, <1>4, <1>5, <1>6, <1>7, <1>8, <1>9, <1>10, <1>11,
           <1>12, <1>13, <1>14 DEF Next

\* Every reachable state of the migration has its type.
THEOREM TypeCorrect == Spec => []TypeOK
  BY TypeInit, TypeStep, PTL DEF Spec

-----------------------------------------------------------------------------
\* Every step keeps BackendInv: no process outlives the rewriting of its unit
\* file, because a stopped service does not come up before it is started.
LEMMA StepBackend == TypeOK /\ BackendInv /\ [Next]_vars => BackendInv'
<1> SUFFICES ASSUME TypeOK, BackendInv, [Next]_vars PROVE BackendInv'
  OBVIOUS
<1> USE ConstantTypes
<1> USE DEF BackendInv, Stopped, Block, TypeOK, ClusterTypeOK, clusterVars,
            nodeState, Goto
<1>1. CASE StartRun
  BY <1>1 DEF StartRun
<1>2. CASE TakeHost
  BY <1>2 DEF TakeHost, First
<1>3. CASE AllMigrated \/ TaskFails
  BY <1>3 DEF AllMigrated, TaskFails
<1>4. CASE Check
  BY <1>4 DEF Check
<1>5. CASE Cordon \/ Drain
  BY <1>5 DEF Cordon, Drain
<1>6. CASE Stop
  BY <1>6 DEF Stop, StopK3s
<1>7. CASE ReplaceUnit \/ Reload
  BY <1>7 DEF ReplaceUnit, Reload
<1>8. CASE RemoveVxlan
  BY <1>8 DEF RemoveVxlan
<1>9. CASE Start
  BY <1>9 DEF Start
<1>10. CASE AwaitService \/ AwaitReady \/ AssertNoVxlan
  BY <1>10 DEF AwaitService, AwaitReady, AssertNoVxlan
<1>11. CASE Uncordon
  BY <1>11 DEF Uncordon
<1>12. ASSUME NEW n \in Nodes, NodeStarts(n)
       PROVE  BackendInv'
  BY <1>12 DEF NodeStarts, StartK3s
<1>13. ASSUME NEW n \in Nodes, NodeNoticed(n)
       PROVE  BackendInv'
  BY <1>13 DEF NodeNoticed, NoticeDown, Heartbeat, playVars
<1>14. CASE UNCHANGED vars
  BY <1>14 DEF vars, playVars
<1> QED BY <1>1, <1>2, <1>3, <1>4, <1>5, <1>6, <1>7, <1>8, <1>9, <1>10, <1>11,
           <1>12, <1>13, <1>14 DEF Next

\* Ansible comes to an agent only when no server is left.
LEMMA ServersComeFirst ==
  ASSUME NEW S \in SUBSET Nodes, NEW n \in First(S), n \in Agents
  PROVE  Servers \cap S = {}
<1>1. n \in S /\ \A m \in S : Order[n] <= Order[m]
  BY DEF First
<1>2. \A m \in Nodes : Order[m] \in Nat
  BY ClusterAssumption
<1> SUFFICES ASSUME NEW s \in Servers \cap S PROVE FALSE
  OBVIOUS
<1>3. Order[s] < Order[n]
  BY ClusterAssumption
<1> QED BY <1>1, <1>2, <1>3

\* Every step keeps ServersInv, in the first run and in every rerun.
LEMMA StepServers == TypeOK /\ ServersInv /\ [Next]_vars => ServersInv'
<1> SUFFICES ASSUME TypeOK, ServersInv, [Next]_vars PROVE ServersInv'
  OBVIOUS
<1> USE ConstantTypes
<1> USE DEF ServersInv, Unchanged, Block, TypeOK, clusterVars,
            nodeState, Goto
<1>1. CASE StartRun
  BY <1>1 DEF StartRun
<1>2. CASE TakeHost
  <2>1. host' \in Agents => Servers \cap left = {}
    BY <1>2, ServersComeFirst DEF TakeHost
  <2>2. Servers \subseteq left \cup unit
    BY <1>2 DEF TakeHost
  <2> QED BY <1>2, <2>1, <2>2 DEF TakeHost
<1>3. CASE AllMigrated \/ TaskFails
  BY <1>3 DEF AllMigrated, TaskFails
<1>4. CASE Check
  BY <1>4 DEF Check
<1>5. CASE Cordon \/ Drain
  BY <1>5 DEF Cordon, Drain
<1>6. CASE Stop
  BY <1>6 DEF Stop
<1>7. CASE ReplaceUnit
  BY <1>7 DEF ReplaceUnit
<1>8. CASE Reload \/ RemoveVxlan
  BY <1>8 DEF Reload, RemoveVxlan
<1>9. CASE Start
  BY <1>9 DEF Start
<1>10. CASE AwaitService \/ AwaitReady \/ AssertNoVxlan
  BY <1>10 DEF AwaitService, AwaitReady, AssertNoVxlan
<1>11. CASE Uncordon
  BY <1>11 DEF Uncordon
<1>12. ASSUME NEW n \in Nodes, NodeStarts(n) \/ NodeNoticed(n)
       PROVE  ServersInv'
  BY <1>12 DEF NodeStarts, NodeNoticed, playVars
<1>13. CASE UNCHANGED vars
  BY <1>13 DEF vars, playVars
<1> QED BY <1>1, <1>2, <1>3, <1>4, <1>5, <1>6, <1>7, <1>8, <1>9, <1>10, <1>11,
           <1>12, <1>13 DEF Next

\* No agent runs the new backend before every server has been given it, in any
\* number of runs, wherever they fail and however stale the Ready conditions.
THEOREM ServersMigrateFirst == Spec => []ServersFirst
<1>1. Init => BackendInv /\ ServersInv
  BY DEF Init, ClusterInit, BackendInv, ServersInv, Stopped, Unchanged
<1>2. TypeOK /\ BackendInv /\ ServersInv => ServersFirst
  BY DEF TypeOK, BackendInv, ServersInv, ServersFirst
<1> QED BY <1>1, <1>2, StepBackend, StepServers, TypeCorrect, PTL DEF Spec

-----------------------------------------------------------------------------
\* Every step keeps FirstRunInv, however stale the Ready conditions are: systemd
\* holds the run at a server until it serves, and an agent that comes up late does
\* so with the unit file it was given.
LEMMA StepFirstRun ==
  TypeOK /\ BackendInv /\ FirstRunInv /\ [Next]_vars => FirstRunInv'
<1> SUFFICES ASSUME TypeOK, BackendInv, FirstRunInv, [Next]_vars, runs' <= 1
             PROVE  FirstRunInv'
  BY DEF FirstRunInv
<1>0. runs \in Nat /\ (runs' = runs \/ (StartRun /\ runs' = runs + 1))
  BY DEF TypeOK, Next, vars, playVars, StartRun, TakeHost, AllMigrated,
         TaskFails, Check, Cordon, Drain, Stop, ReplaceUnit, Reload,
         RemoveVxlan, Start, AwaitService, AwaitReady, AssertNoVxlan, Uncordon,
         NodeStarts, NodeNoticed, Goto
<1>a. runs <= 1
  BY <1>0
<1> USE ConstantTypes, <1>a
<1> USE DEF FirstRunInv, Serving, Migrated, Unchanged, Block, TypeOK,
            ClusterTypeOK, clusterVars, nodeState, Goto
<1>1. CASE StartRun
  <2>1. runs = 0
    BY <1>0, <1>1 DEF StartRun
  <2> QED BY <1>1, <2>1 DEF StartRun
<1>2. CASE TakeHost
  BY <1>2 DEF TakeHost, First
<1>3. CASE AllMigrated
  BY <1>3 DEF AllMigrated
<1>4. CASE TaskFails
  BY <1>4 DEF TaskFails
<1>5. CASE Check
  BY <1>5 DEF Check
<1>6. CASE Cordon \/ Drain
  BY <1>6 DEF Cordon, Drain
<1>7. CASE Stop
  BY <1>7 DEF Stop, StopK3s
<1>8. CASE ReplaceUnit
  BY <1>8 DEF ReplaceUnit
<1>9. CASE Reload
  BY <1>9 DEF Reload
<1>10. CASE RemoveVxlan
  BY <1>10 DEF RemoveVxlan
<1>11. CASE Start
  BY <1>11 DEF Start
<1>12. CASE AwaitService \/ AwaitReady \/ AssertNoVxlan
  BY <1>12 DEF AwaitService, AwaitReady, AssertNoVxlan
<1>13. CASE Uncordon
  BY <1>13 DEF Uncordon
<1>14. ASSUME NEW n \in Nodes, NodeStarts(n)
       PROVE  FirstRunInv'
  <2>1. n \notin up /\ n \notin left /\ n \in wanted
    BY <1>14 DEF NodeStarts, StartK3s
  <2>2. pc \in Stopped => n # host
    BY <2>1 DEF BackendInv
  <2>3. pc # "idle" \/ outcome = "ok" => n \in systemd
    BY <2>1, <2>2 DEF Stopped
  <2> QED BY <1>14, <2>3 DEF NodeStarts, StartK3s
<1>15. ASSUME NEW n \in Nodes, NodeNoticed(n)
       PROVE  FirstRunInv'
  BY <1>15 DEF NodeNoticed, NoticeDown, Heartbeat, playVars
<1>16. CASE UNCHANGED vars
  BY <1>16 DEF vars, playVars
<1> QED BY <1>1, <1>2, <1>3, <1>4, <1>5, <1>6, <1>7, <1>8, <1>9, <1>10, <1>11,
           <1>12, <1>13, <1>14, <1>15, <1>16 DEF Next

\* The initial state satisfies FirstRunInv.
LEMMA InitFirstRun == Init => BackendInv /\ FirstRunInv
  BY ConstantTypes DEF Init, ClusterInit, BackendInv, FirstRunInv, Stopped, Serving,
         Unchanged, Block

\* A first run that reports success has put every node on the new backend and has
\* every server back, also when every Ready condition it has read was stale.
THEOREM FirstRunMigrates == Spec => [](runs <= 1 => SuccessGivesBackend)
<1>1. TypeOK /\ BackendInv /\ FirstRunInv => (runs <= 1 => SuccessGivesBackend)
  BY DEF TypeOK, ClusterTypeOK, BackendInv, FirstRunInv, SuccessGivesBackend,
         Migrated
<1>2. TypeOK /\ BackendInv /\ FirstRunInv /\ [Next]_vars => FirstRunInv'
  BY StepFirstRun
<1> QED BY <1>1, <1>2, InitFirstRun, StepBackend, TypeCorrect, PTL DEF Spec

-----------------------------------------------------------------------------
\* Every step takes a server out of service while the others serve, returns it, or
\* leaves the servers that are out alone; a second run ends the account.
LEMMA StepMaintenance ==
  ASSUME TypeOK, FirstRunInv, [Next]_vars
  PROVE  [Maintenance!Next]_OutInFirstRun
<1>1. CASE ~(runs' <= 1)
  <2>1. Maintenance!Return
    BY <1>1 DEF Maintenance!Return, OutInFirstRun
  <2> QED BY <2>1 DEF Maintenance!Next
<1>2. CASE UNCHANGED <<up, runs>>
  BY <1>2 DEF OutInFirstRun
<1>3. CASE StartRun /\ runs' <= 1
  <2>1. runs = 0 /\ UNCHANGED up
    BY <1>3 DEF StartRun, TypeOK, clusterVars
  <2> QED BY <1>3, <2>1 DEF OutInFirstRun
<1>4. CASE Stop /\ runs' <= 1
  <2>1. runs <= 1 /\ up' = up \ {host} /\ pc \in Serving
    BY <1>4 DEF Stop, StopK3s, Goto, TypeOK, Serving
  <2>2. Servers \subseteq up
    BY <2>1 DEF FirstRunInv
  <2>3. OutInFirstRun = {} /\ OutInFirstRun' = Servers \cap {host}
    BY <1>4, <2>1, <2>2 DEF OutInFirstRun
  <2>4. CASE host \in Servers
    <3>1. Maintenance!Take
      BY <2>3, <2>4 DEF Maintenance!Take
    <3> QED BY <3>1 DEF Maintenance!Next
  <2>5. CASE host \notin Servers
    BY <2>3, <2>5
  <2> QED BY <2>4, <2>5
<1>5. ASSUME NEW n \in Nodes, NodeStarts(n), runs' <= 1
      PROVE  [Maintenance!Next]_OutInFirstRun
  <2>1. runs <= 1 /\ up' = up \cup {n}
    BY <1>5 DEF NodeStarts, StartK3s
  <2>2. Servers \ up \subseteq {host}
    BY <2>1 DEF FirstRunInv
  <2>3. OutInFirstRun' = OutInFirstRun \/ Maintenance!Return
    BY <1>5, <2>1, <2>2 DEF Maintenance!Return, OutInFirstRun
  <2> QED BY <2>3 DEF Maintenance!Next
<1> QED
  BY <1>1, <1>2, <1>3, <1>4, <1>5
  DEF Next, vars, playVars, clusterVars, TakeHost, AllMigrated, TaskFails,
      Check, Cordon, Drain, ReplaceUnit, Reload, RemoveVxlan, Start,
      AwaitService, AwaitReady, AssertNoVxlan, Uncordon, NodeNoticed,
      NoticeDown, Heartbeat, Goto

\* The first run of the migration is a rolling maintenance of the servers, however
\* stale the Ready conditions are: a server is stopped only while all others serve.
THEOREM MigrationImplementsMaintenance == Spec => MigratesServers
<1>1. Init => Maintenance!Init
  BY ConstantTypes DEF Init, ClusterInit, OutInFirstRun, Maintenance!Init
<1>2. TypeOK /\ BackendInv /\ FirstRunInv /\ [Next]_vars => FirstRunInv'
  BY StepFirstRun
<1>3. TypeOK /\ FirstRunInv /\ [Next]_vars
        => [Maintenance!Next]_OutInFirstRun
  BY StepMaintenance
<1> QED BY <1>1, <1>2, <1>3, InitFirstRun, StepBackend, TypeCorrect, PTL
        DEF Spec, MigratesServers, Maintenance!Spec
=============================================================================
