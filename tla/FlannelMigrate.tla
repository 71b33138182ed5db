--------------------------- MODULE FlannelMigrate ---------------------------
(***************************************************************************)
(* ansible/playbooks/k3s-flannel-migrate.yml and its role                  *)
(* ansible/roles/k3s_flannel_migrate: move every node from the VXLAN       *)
(* backend of flannel to wireguard-native, one node at a time.             *)
(*                                                                         *)
(* The role decides by the text of the systemd unit whether a node still   *)
(* has to be migrated, and rewrites that text in the middle of the         *)
(* migration.  Any task may fail; both plays run with serial: 1, so a      *)
(* failure ends the run and the operator runs the playbook again.          *)
(***************************************************************************)
EXTENDS K3sCluster

CONSTANT MaxRuns  \* bound: runs of the playbook

ASSUME MigrateAssumption == MaxRuns \in Nat

VARIABLES
    pc,         \* the task the playbook is at
    left,       \* the hosts the run has not come to yet
    host,       \* the host of the current batch
    outcome,    \* how the last run ended
    unit,       \* the nodes whose unit file names the new backend
    systemd,    \* the nodes whose systemd has read that unit file
    wireguard,  \* the nodes whose k3s process runs the new backend
    vxlan,      \* the nodes that have an interface flannel.1
    wanted,     \* the nodes whose k3s service is started
    runs        \* runs so far

playVars == <<pc, left, host, outcome, unit, systemd, wireguard, vxlan,
              wanted, runs>>
vars == <<clusterVars, playVars>>

Block == {"cordon", "drain", "stop", "replace", "reload", "remove", "start",
          "service", "ready", "assert", "uncordon"}

TypeOK ==
    /\ ClusterTypeOK
    /\ crashes \in 0..MaxCrashes
    /\ pc \in {"idle", "next", "check"} \cup Block
    /\ left \in SUBSET Nodes
    /\ host \in Nodes
    /\ outcome \in {"none", "ok", "failed"}
    /\ systemd \subseteq unit /\ unit \subseteq Nodes
    /\ wireguard \subseteq up
    /\ vxlan \in SUBSET Nodes
    /\ up \subseteq wanted /\ wanted \subseteq Nodes
    /\ runs \in 0..MaxRuns

Init ==
    /\ ClusterInit
    /\ pc = "idle"
    /\ left = {}
    /\ host = Primary
    /\ outcome = "none"
    /\ unit = {} /\ systemd = {} /\ wireguard = {}
    /\ vxlan = Nodes
    /\ wanted = Nodes
    /\ runs = 0

nodeState == <<unit, systemd, wireguard, vxlan, wanted>>

-----------------------------------------------------------------------------
\* The run as a whole.

StartRun ==
    /\ pc = "idle"
    /\ runs < MaxRuns
    /\ runs' = runs + 1
    /\ left' = Nodes
    /\ pc' = "next"
    /\ outcome' = "none"
    /\ UNCHANGED <<clusterVars, host, nodeState>>

\* Slip: the agents are migrated first.
TakeAgentFirst ==
    /\ pc = "next"
    /\ host' \in {n \in left : \A m \in left : Order[m] <= Order[n]}
    /\ left' = left \ {host'}
    /\ pc' = "check"
    /\ UNCHANGED <<clusterVars, outcome, nodeState, runs>>

\* The next batch.
TakeHost ==
    /\ pc = "next"
    /\ host' \in First(left)
    /\ left' = left \ {host'}
    /\ pc' = "check"
    /\ UNCHANGED <<clusterVars, outcome, nodeState, runs>>

AllMigrated ==
    /\ pc = "next"
    /\ left = {}
    /\ pc' = "idle"
    /\ outcome' = "ok"
    /\ UNCHANGED <<clusterVars, left, host, nodeState, runs>>

-----------------------------------------------------------------------------
\* The tasks of the role.

Goto(here, where) ==
    /\ pc = here
    /\ pc' = where
    /\ UNCHANGED <<left, host, outcome, runs, crashes>>

\* A task of the block fails and ends the run.
TaskFails ==
    /\ pc \in Block
    /\ pc' = "idle"
    /\ outcome' = "failed"
    /\ UNCHANGED <<clusterVars, left, host, nodeState, runs>>

\* needs_migration: the unit file still names the old argument.
Check ==
    /\ Goto("check", IF host \in unit THEN "next" ELSE "cordon")
    /\ UNCHANGED <<up, ready, cordoned, nodeState>>

Cordon ==
    /\ Goto("cordon", "drain")
    /\ ApiUp
    /\ cordoned' = cordoned \cup {host}
    /\ UNCHANGED <<up, ready, nodeState>>

\* The node is cordoned already; drain evicts its pods.
Drain ==
    /\ Goto("drain", "stop")
    /\ ApiUp
    /\ UNCHANGED <<up, ready, cordoned, nodeState>>

\* Slip: the service is disabled and not stopped.
StopDisables ==
    /\ Goto("stop", "replace")
    /\ wanted' = wanted \ {host}
    /\ UNCHANGED <<up, ready, cordoned, unit, systemd, wireguard, vxlan>>

Stop ==
    /\ Goto("stop", "replace")
    /\ StopK3s(host)
    /\ wireguard' = wireguard \ {host}
    /\ wanted' = wanted \ {host}
    /\ UNCHANGED <<cordoned, unit, systemd, vxlan>>

ReplaceUnit ==
    /\ Goto("replace", "reload")
    /\ unit' = unit \cup {host}
    /\ UNCHANGED <<up, ready, cordoned, systemd, wireguard, vxlan, wanted>>

Reload ==
    /\ Goto("reload", "remove")
    /\ systemd' = systemd \cup ({host} \cap unit)
    /\ UNCHANGED <<up, ready, cordoned, unit, wireguard, vxlan, wanted>>

\* ip link delete may fail without failing the task (failed_when: false).
RemoveVxlan ==
    /\ Goto("remove", "start")
    /\ vxlan' \in {vxlan, vxlan \ {host}}
    /\ UNCHANGED <<up, ready, cordoned, unit, systemd, wireguard, wanted>>

\* Slip: the start is queued and not waited for (no_block).
StartNoBlock ==
    /\ Goto("start", "ready")
    /\ wanted' = wanted \cup {host}
    /\ UNCHANGED <<up, ready, cordoned, unit, systemd, wireguard, vxlan>>

\* systemctl start returns when a server is up (Type=notify), and at once for
\* an agent.
Start ==
    /\ Goto("start", IF host \in Servers THEN "service" ELSE "ready")
    /\ wanted' = wanted \cup {host}
    /\ UNCHANGED <<up, ready, cordoned, unit, systemd, wireguard, vxlan>>

AwaitService ==
    /\ Goto("service", "ready")
    /\ host \in up
    /\ UNCHANGED <<up, ready, cordoned, nodeState>>

\* The Ready condition may be the one from before the stop (StaleReady).
AwaitReady ==
    /\ Goto("ready", "assert")
    /\ ApiUp
    /\ host \in ready
    /\ UNCHANGED <<up, ready, cordoned, nodeState>>

\* Slip: the last check of the role is dropped.
AssertNothing ==
    /\ Goto("assert", "uncordon")
    /\ UNCHANGED <<up, ready, cordoned, nodeState>>

AssertNoVxlan ==
    /\ Goto("assert", "uncordon")
    /\ host \notin vxlan
    /\ UNCHANGED <<up, ready, cordoned, nodeState>>

Uncordon ==
    /\ Goto("uncordon", "next")
    /\ ApiUp
    /\ cordoned' = cordoned \ {host}
    /\ UNCHANGED <<up, ready, nodeState>>

-----------------------------------------------------------------------------
\* The cluster, meanwhile.

\* The process of a started service comes up with the unit systemd has read;
\* the VXLAN backend brings its interface back.
NodeStarts(n) ==
    /\ n \in wanted
    /\ StartK3s(n)
    /\ IF n \in systemd
       THEN wireguard' = wireguard \cup {n} /\ UNCHANGED vxlan
       ELSE vxlan' = vxlan \cup {n} /\ UNCHANGED wireguard
    /\ UNCHANGED <<ready, cordoned, crashes, pc, left, host, outcome, unit,
                   systemd, wanted, runs>>

NodeNoticed(n) == (NoticeDown(n) \/ Heartbeat(n)) /\ UNCHANGED playVars

Next == \/ StartRun \/ TakeHost \/ AllMigrated \/ TaskFails
        \/ Check \/ Cordon \/ Drain \/ Stop \/ ReplaceUnit \/ Reload
        \/ RemoveVxlan \/ Start \/ AwaitService \/ AwaitReady \/ AssertNoVxlan
        \/ Uncordon
        \/ \E n \in Nodes : NodeStarts(n) \/ NodeNoticed(n)

Spec == Init /\ [][Next]_vars

-----------------------------------------------------------------------------
\* Properties.

\* An agent runs the new backend only when every server has been given it: the
\* servers, which keep the backend in the datastore, come first in every run,
\* the reruns after a failure included.
ServersFirst == wireguard \cap Agents # {} => Servers \subseteq unit

\* A first run that reports success leaves every server up, every node that is up
\* on the new backend and every other one set to start with it, none cordoned and
\* none with a VXLAN interface.  An agent may still be down: its start returns at
\* once, and the wait for Ready may be ended by the condition from before the stop.
SuccessGivesBackend ==
    outcome = "ok" => /\ Servers \subseteq up
                      /\ up \subseteq wireguard /\ systemd = Nodes
                      /\ vxlan = {}
                      /\ cordoned = {}

\* A run that reports success leaves every node up, migrated and schedulable,
\* with no VXLAN interface.
SuccessMigrates ==
    outcome = "ok" => /\ up = Nodes /\ wireguard = Nodes
                      /\ vxlan = {}
                      /\ cordoned = {}

\* The inductive invariant behind ServersFirst: a process runs the new backend
\* exactly when systemd had read the new unit file, the run has given the new
\* unit file to the servers it has dealt with, and comes to an agent only when
\* no server is left.
Stopped == {"replace", "reload", "remove", "start"}
Unchanged == {"check", "cordon", "drain", "stop", "replace"}

BackendInv ==
    /\ wireguard = up \cap systemd
    /\ pc \in Stopped => host \notin wanted

ServersInv ==
    /\ pc # "idle" => Servers \subseteq left \cup unit \cup {host}
    /\ pc \notin Unchanged \cup {"idle"} => Servers \subseteq left \cup unit
    /\ pc \notin {"idle", "next"} /\ host \in Agents => Servers \cap left = {}
    /\ unit \cap Agents # {} => Servers \subseteq unit

\* The inductive invariant behind the first run: where every server has to be up
\* for the role to go on, every server is, elsewhere only the current host may be
\* a server that is down; what the run has not come to is up, and what it has
\* dealt with is migrated.
Serving == {"next", "check", "cordon", "drain", "stop", "ready", "assert",
            "uncordon"}

Migrated == (systemd \ vxlan) \ cordoned

FirstRunInv ==
    runs <= 1 =>
      /\ Servers \ up \subseteq {host} /\ left \subseteq up
      /\ runs = 0 => pc = "idle" /\ outcome = "none" /\ unit = {} /\ up = Nodes
      /\ pc \in Serving => Servers \subseteq up
      /\ pc \in Unchanged \ {"replace"} => host \in up
      /\ pc # "idle" => outcome = "none" /\ left \cap unit = {}
      /\ pc \notin {"idle", "next"} => host \notin left
      /\ pc \in Unchanged => host \notin unit
      /\ pc \in Block \ Unchanged => host \in unit
      /\ pc \in Block \ (Unchanged \cup {"reload"}) => host \in systemd
      /\ pc = "uncordon" => host \notin vxlan
      /\ pc # "idle" => Nodes \ left \subseteq Migrated \cup {host}
      /\ pc = "next" => Nodes \ left \subseteq Migrated
      /\ outcome = "ok" => pc = "idle" /\ Servers \subseteq up /\ Migrated = Nodes

\* The migration is a rolling maintenance of the servers in its first run.  A rerun
\* after a failure skips the server that was left down when its unit file is
\* rewritten already; from then on none counts as out.
OutInFirstRun == IF runs <= 1 THEN Servers \ up ELSE {}
Maintenance ==
    INSTANCE RollingMaintenance WITH Nodes <- Servers, out <- OutInFirstRun
MigratesServers == Maintenance!Spec
=============================================================================
