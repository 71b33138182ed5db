--------------------------- MODULE RollingRestart ---------------------------
(***************************************************************************)
(* ansible/playbooks/k3s-rolling-restart.yml: apply config.yaml to every   *)
(* node, then drain, restart, await and uncordon them one at a time, the   *)
(* servers first.                                                          *)
(*                                                                         *)
(* One task of the playbook is one action.  The plays of phases 2 and 3    *)
(* run with serial: 1, so a host that fails a task is its whole batch and  *)
(* Ansible ends the run; a host that fails in phase 1 is only left out of  *)
(* the later plays, unless all hosts of the play fail.                     *)
(***************************************************************************)
EXTENDS K3sCluster

CONSTANTS
    MaxRuns,    \* bound: runs of the playbook
    Retries,    \* polls of a waiting task (retries: 30 and 15 in the code)
    Preflight,  \* does the operator verify all nodes are Ready first?
    ConfigMayFail  \* may the role k3s_config fail on a host?

ASSUME RollingAssumption ==
    /\ MaxRuns \in Nat
    /\ Retries \in Nat \ {0}
    /\ Preflight \in BOOLEAN
    /\ ConfigMayFail \in BOOLEAN

VARIABLES
    pc,       \* the task the playbook is at
    limit,    \* the hosts of this run (--limit)
    opts,     \* k3s_restart_drain and k3s_restart_reboot, if set
    left,     \* the hosts still to be restarted
    host,     \* the host of the current batch
    tries,    \* polls of the current task
    failed,   \* the hosts that failed in this run
    outcome,  \* how the last run ended
    disk,     \* the nodes whose config.yaml is the new one
    loaded,   \* the nodes whose k3s process has read the new config.yaml
    runs      \* runs so far

playVars == <<pc, limit, opts, left, host, tries, failed, outcome, disk,
              loaded, runs>>
vars == <<clusterVars, playVars>>

Pcs == {"idle", "config servers", "config agents", "next", "drain", "restart",
        "reboot", "service", "api", "ready", "etcd", "uncordon"}

CountersOK ==
    /\ crashes \in 0..MaxCrashes
    /\ tries \in 0..(Retries - 1)
    /\ runs \in 0..MaxRuns

TypeOK ==
    /\ ClusterTypeOK
    /\ CountersOK
    /\ pc \in Pcs
    /\ limit \in SUBSET Nodes
    /\ opts \in SUBSET {"drain", "reboot"}
    /\ left \in SUBSET limit
    /\ host \in Nodes
    /\ failed \in SUBSET Nodes
    /\ outcome \in {"none", "ok", "failed"}
    /\ disk \in SUBSET Nodes
    /\ loaded \in SUBSET disk

Init ==
    /\ ClusterInit
    /\ pc = "idle"
    /\ limit = {}
    /\ opts = {}
    /\ left = {}
    /\ host = Primary
    /\ tries = 0
    /\ failed = {}
    /\ outcome = "none"
    /\ disk = {}
    /\ loaded = {}
    /\ runs = 0

-----------------------------------------------------------------------------
\* The run as a whole.

\* Slip: the operator skips the pre-flight check after an aborted run.
StartUnchecked ==
    /\ pc = "idle"
    /\ runs < MaxRuns
    /\ runs' = runs + 1
    /\ limit' \in {Nodes} \cup {{n} : n \in Nodes}
    /\ opts' \in SUBSET {"drain", "reboot"}
    /\ left' = limit'
    /\ failed' = {}
    /\ outcome' = "none"
    /\ pc' = "config servers"
    /\ UNCHANGED <<clusterVars, host, tries, disk, loaded>>

\* The operator starts the playbook, on all hosts or limited to one, with any
\* of the two extra variables.
StartRun ==
    /\ pc = "idle"
    /\ runs < MaxRuns
    /\ Preflight => Nodes \subseteq ready
    /\ runs' = runs + 1
    /\ limit' \in {Nodes} \cup {{n} : n \in Nodes}
    /\ opts' \in SUBSET {"drain", "reboot"}
    /\ left' = limit'
    /\ failed' = {}
    /\ outcome' = "none"
    /\ pc' = "config servers"
    /\ UNCHANGED <<clusterVars, host, tries, disk, loaded>>

EndRun(result) ==
    /\ pc' = "idle"
    /\ outcome' = result
    /\ tries' = 0

Goto(where) == pc' = where /\ tries' = 0 /\ UNCHANGED outcome

\* Slip: a host that fails in phase 1 is rescued, and not reported.
ConfigureRescued(group, here, where) ==
    /\ pc = here
    /\ \E bad \in SUBSET group : \E written \in SUBSET bad :
         /\ bad # {} => ConfigMayFail
         /\ disk' = disk \cup (group \ bad) \cup written
         /\ left' = left \ bad
         /\ UNCHANGED failed
         /\ Goto(where)
    /\ UNCHANGED <<clusterVars, limit, opts, host, loaded, runs>>

\* Phase 1 on one group of hosts.  The role may fail on some of them, before
\* or after it has written config.yaml.
Configure(group, here, where) ==
    /\ pc = here
    /\ \E bad \in SUBSET group : \E written \in SUBSET bad :
         /\ bad # {} => ConfigMayFail
         /\ disk' = disk \cup (group \ bad) \cup written
         /\ left' = left \ bad
         /\ failed' = failed \cup bad
         /\ IF bad # {} /\ bad = group THEN EndRun("failed") ELSE Goto(where)
    /\ UNCHANGED <<clusterVars, limit, opts, host, loaded, runs>>

ConfigureServers ==
    Configure(Servers \cap limit, "config servers", "config agents")
ConfigureAgents == Configure(Agents \cap limit, "config agents", "next")

\* The next batch.
TakeHost ==
    /\ pc = "next"
    /\ host' \in First(left)
    /\ left' = left \ {host'}
    /\ Goto(IF "drain" \in opts THEN "drain" ELSE "restart")
    /\ UNCHANGED <<clusterVars, limit, opts, failed, disk, loaded, runs>>

AllRestarted ==
    /\ pc = "next"
    /\ left = {}
    /\ EndRun(IF failed = {} THEN "ok" ELSE "failed")
    /\ UNCHANGED <<clusterVars, limit, opts, left, host, failed, disk, loaded,
                   runs>>

-----------------------------------------------------------------------------
\* The tasks of one batch.

batchUnchanged == UNCHANGED <<limit, opts, left, host, disk, runs>>

TaskFails == EndRun("failed") /\ failed' = failed \cup {host}
TaskDone(where) == Goto(where) /\ UNCHANGED failed

\* kubectl drain cordons the node and then evicts its pods, for at most 120s.
Drain ==
    /\ pc = "drain"
    /\ \/ /\ ApiUp
          /\ cordoned' = cordoned \cup {host}
          /\ TaskDone("restart") \/ TaskFails
       \/ /\ ~ApiUp
          /\ TaskFails
          /\ UNCHANGED cordoned
    /\ batchUnchanged /\ UNCHANGED <<up, ready, crashes, loaded>>

\* The reboot, or the restart of the k3s service, stops the process.
\* systemd returns from the restart of a server when the server is up (the
\* unit is of Type=notify), from the restart of an agent at once.
AfterStop == IF "reboot" \in opts THEN "reboot"
             ELSE IF host \in Servers THEN "service" ELSE "ready"

Restart ==
    /\ pc = "restart"
    /\ StopK3s(host)
    /\ loaded' = loaded \ {host}
    /\ TaskDone(AfterStop)
    /\ batchUnchanged /\ UNCHANGED <<cordoned, crashes>>

AfterRestart == IF host \in Servers THEN "api" ELSE "ready"

\* Slip: the machine that does not come back is ignored (ignore_errors).
AwaitMachineOrIgnore ==
    /\ pc = "reboot"
    /\ TaskDone(AfterRestart) \/ TaskDone("next")
    /\ batchUnchanged /\ UNCHANGED <<clusterVars, loaded>>

\* ansible.builtin.reboot returns when the machine can be reached again, which
\* says nothing of k3s; it fails after reboot_timeout.
AwaitMachine ==
    /\ pc = "reboot"
    /\ TaskDone(AfterRestart) \/ TaskFails
    /\ batchUnchanged /\ UNCHANGED <<clusterVars, loaded>>

\* Slip: the restart is queued and not waited for (no_block).
ServiceQueued ==
    /\ pc = "service"
    /\ TaskDone(AfterRestart)
    /\ batchUnchanged /\ UNCHANGED <<clusterVars, loaded>>

\* systemctl restart of a unit of Type=notify returns when k3s has notified, and
\* fails when the process has ended before.  The task has no timeout and no async
\* of its own: a server that does neither keeps it waiting (Waiting).
AwaitService ==
    /\ pc = "service"
    /\ \/ host \in up /\ TaskDone(AfterRestart)
       \/ host \notin up /\ TaskFails
    /\ batchUnchanged /\ UNCHANGED <<clusterVars, loaded>>

\* Slip: a task polls once too often.
PollOnceMore(here, cond, where) ==
    /\ pc = here
    /\ \/ cond /\ TaskDone(where)
       \/ /\ ~cond /\ tries < Retries
          /\ tries' = tries + 1
          /\ UNCHANGED <<pc, outcome, failed>>
       \/ ~cond /\ tries = Retries /\ TaskFails
    /\ batchUnchanged /\ UNCHANGED <<clusterVars, loaded>>

\* Slip: a host that is not back in time is restarted once more (rescue).
PollOrRestart(here, cond, where) ==
    /\ pc = here
    /\ \/ cond /\ TaskDone(where)
       \/ /\ ~cond /\ tries + 1 < Retries
          /\ tries' = tries + 1
          /\ UNCHANGED <<pc, outcome, failed>>
       \/ ~cond /\ tries + 1 = Retries /\ TaskDone("restart")
    /\ batchUnchanged /\ UNCHANGED <<clusterVars, loaded>>

\* A task with until: polls until its condition holds or it runs out of
\* retries.
Poll(here, cond, where) ==
    /\ pc = here
    /\ \/ cond /\ TaskDone(where)
       \/ /\ ~cond /\ tries + 1 < Retries
          /\ tries' = tries + 1
          /\ UNCHANGED <<pc, outcome, failed>>
       \/ ~cond /\ tries + 1 = Retries /\ TaskFails
    /\ batchUnchanged /\ UNCHANGED <<clusterVars, loaded>>

AfterWaits == IF "drain" \in opts THEN "uncordon" ELSE "next"

AwaitApi == Poll("api", ApiUp, "ready")

\* Slip: the wait is over as soon as kubectl shows the node at all.
AwaitShown ==
    Poll("ready", ApiUp, IF host \in Servers THEN "etcd" ELSE AfterWaits)

AwaitReady ==
    Poll("ready", ApiUp /\ host \in ready,
         IF host \in Servers THEN "etcd" ELSE AfterWaits)

AwaitEtcd == Poll("etcd", ApiUp, AfterWaits)

\* Slip: a failed uncordon does not fail the task (failed_when: false).
UncordonOrNot ==
    /\ pc = "uncordon"
    /\ TaskDone("next")
    /\ cordoned' = IF ApiUp THEN cordoned \ {host} ELSE cordoned
    /\ batchUnchanged /\ UNCHANGED <<up, ready, crashes, loaded>>

Uncordon ==
    /\ pc = "uncordon"
    /\ IF ApiUp
       THEN cordoned' = cordoned \ {host} /\ TaskDone("next")
       ELSE UNCHANGED cordoned /\ TaskFails
    /\ batchUnchanged /\ UNCHANGED <<up, ready, crashes, loaded>>

Play == \/ StartRun \/ ConfigureServers \/ ConfigureAgents
        \/ TakeHost \/ AllRestarted \/ Drain \/ Restart
        \/ AwaitMachine \/ AwaitService \/ AwaitApi \/ AwaitReady \/ AwaitEtcd
        \/ Uncordon

-----------------------------------------------------------------------------
\* The cluster, meanwhile.

\* A k3s process starts and reads config.yaml.
NodeStarts(n) ==
    /\ StartK3s(n)
    /\ loaded' = loaded \cup ({n} \cap disk)
    /\ UNCHANGED <<ready, cordoned, crashes, pc, limit, opts, left, host,
                   tries, failed, outcome, disk, runs>>

\* A node fails on its own.
NodeCrashes(n) ==
    /\ n \in up
    /\ crashes < MaxCrashes
    /\ crashes' = crashes + 1
    /\ StopK3s(n)
    /\ loaded' = loaded \ {n}
    /\ UNCHANGED <<cordoned, pc, limit, opts, left, host, tries, failed,
                   outcome, disk, runs>>

NodeNoticed(n) == (NoticeDown(n) \/ Heartbeat(n)) /\ UNCHANGED playVars

Next == \/ Play
        \/ \E n \in Nodes : NodeStarts(n) \/ NodeCrashes(n) \/ NodeNoticed(n)

Spec == Init /\ [][Next]_vars

\* The run is at the restart of a server that has not notified.
Waiting == pc = "service" /\ host \notin up

\* Ansible goes on with the run it has been given: reboot_timeout, the timeout of
\* the drain and the retries end every other task, if each call of kubectl ends.
\* The restart of a service ends when the service is up, and may end before.
\* Nobody has to start a run and no node has to come back.
Fairness == WF_vars(Play /\ pc # "idle" /\ ~Waiting)

-----------------------------------------------------------------------------
\* Properties.

\* What the playbook's header promises: a rolling restart never takes the etcd
\* quorum away, the waits after a restart hold the next one back.  A stale Ready
\* condition breaks it; RollingHistory says that nothing else does.
QuorumKept == crashes = 0 => Quorum

\* A first run that restarts the services and reboots nobody, before a node has
\* failed on its own.  Here a server's wait is systemd's, and not only the Ready
\* condition.  (The pre-flight check of a second run may itself read a stale one.)
ServiceRestart == runs <= 1 /\ crashes = 0 /\ "reboot" \notin opts

\* Such a run keeps the etcd quorum, however stale the Ready conditions are that
\* the later waits read.
RestartKeepsQuorum == ServiceRestart => Quorum

\* A full run that reports success leaves no node that serves with the old
\* configuration, whatever an earlier run that was aborted left behind and
\* whatever crashed meanwhile.
SuccessRollsConfig ==
    outcome = "ok" /\ limit = Nodes => up \subseteq loaded

\* A full run with drain that reports success leaves no node cordoned, not
\* even one that an aborted run had cordoned.
SuccessUncordons ==
    outcome = "ok" /\ limit = Nodes /\ "drain" \in opts => cordoned = {}

\* The inductive invariant behind RestartKeepsQuorum and RestartsServers: only the
\* current host may be a server that is down, and only while systemd is waited for
\* or after it has failed.
ServiceInv ==
    /\ runs = 0 => pc = "idle" /\ opts = {} /\ (crashes = 0 => up = Nodes)
    /\ ServiceRestart =>
         /\ pc # "reboot"
         /\ pc \notin {"idle", "service"} => Servers \subseteq up
         /\ Servers \ up \subseteq {host}

\* The inductive invariant behind SuccessUncordons: in a full run with drain a
\* cordoned node is still to come, has failed, or is the current host.
CordonInv ==
    limit = Nodes /\ "drain" \in opts =>
      /\ pc # "idle" => cordoned \subseteq left \cup failed \cup {host}
      /\ pc \in {"config servers", "config agents", "next"} =>
           cordoned \subseteq left \cup failed
      /\ outcome = "ok" => pc = "idle" /\ cordoned = {}

\* The inductive invariant behind SuccessRollsConfig: in a full run every node
\* has the new file or has failed, and one that serves with the old file is
\* still to come, has failed, or is the current host before its restart.
ConfigInv ==
    limit = Nodes =>
      /\ pc \in {"config servers", "config agents"} => Nodes \subseteq left \cup failed
      /\ pc = "config agents" => Servers \subseteq disk \cup failed
      /\ pc \notin {"idle", "config servers", "config agents"} =>
           Nodes \subseteq disk \cup failed
      /\ pc # "idle" =>
           \A n \in up \ (left \cup failed) :
             n \in loaded \/ (n = host /\ pc \in {"drain", "restart"})
      /\ outcome = "ok" => pc = "idle" /\ disk = Nodes /\ up \subseteq loaded

\* Every run ends, also when a node that was rebooted, or an agent, does not come
\* back.  One wait alone has no bound, the one for systemd in the middle of a
\* server's restart: a run that does not end is there for good.
RunEnds == []<>(pc = "idle") \/ <>[]Waiting

\* The tasks a run has still to go through, at most: those of the current host,
\* and nine for every host that is left.
TasksAt == [task \in Pcs |->
    CASE task = "idle" -> 0
      [] task = "next" -> 1
      [] task \in {"config agents", "uncordon"} -> 2
      [] task \in {"config servers", "etcd"} -> 3
      [] task = "ready" -> 4
      [] task = "api" -> 5
      [] task = "service" -> 6
      [] task = "reboot" -> 7
      [] task = "restart" -> 8
      [] task = "drain" -> 9]

TasksLeft == IF pc = "idle" THEN 0 ELSE 9 * Cardinality(left) + TasksAt[pc]

\* What bounds a run, whatever the nodes do beside it: every step of the playbook
\* leaves fewer tasks or is one more of a task's Retries polls, and nothing else
\* moves the run back.  So a run of n hosts is over after (9n + 3) * Retries steps.
Shorter ==
    \/ TasksLeft' < TasksLeft
    \/ TasksLeft' = TasksLeft /\ tries' = tries + 1 /\ tries' < Retries

RunAdvances ==
    [][ IF pc = "idle"
        THEN TasksLeft' <= 9 * Cardinality(limit') + 3
        ELSE IF Play THEN Shorter ELSE UNCHANGED <<pc, left, tries>> ]_vars

\* A first run that restarts services is a rolling maintenance of the servers,
\* however stale the Ready conditions are.
ServersOut == IF ServiceRestart THEN Servers \ up ELSE {}
ServerMaintenance ==
    INSTANCE RollingMaintenance WITH Nodes <- Servers, out <- ServersOut
RestartsServers == ServerMaintenance!Spec
=============================================================================
