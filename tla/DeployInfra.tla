---------------------------- MODULE DeployInfra ----------------------------
(***************************************************************************)
(* .github/workflows/deploy-infra.yml: every push to main that touches     *)
(* ansible/ starts a run, which finds out from the last commit which       *)
(* playbooks it has to run and runs them, the cluster's before the Docker  *)
(* node's.  The workflow has no concurrency group, so runs may overlap.    *)
(*                                                                         *)
(* A commit is the part of ansible/ that it touches; a version is a number *)
(* of commits on main; a target holds the version it was last deployed     *)
(* from.                                                                   *)
(***************************************************************************)
EXTENDS Naturals, Sequences, FiniteSets

CONSTANTS
    Parts,           \* the parts of ansible/ that commits touch
    MaxCommits,      \* bound: commits on main
    MaxPushCommits,  \* bound: commits of one push
    MaxDispatches,   \* bound: manual runs
    Overlap,         \* may a run start while another one is not over?
    JobsMayFail      \* may a deployment job fail?

ASSUME DeployAssumption ==
    /\ MaxCommits \in Nat
    /\ MaxPushCommits \in Nat \ {0}
    /\ MaxDispatches \in Nat
    /\ Overlap \in BOOLEAN
    /\ JobsMayFail \in BOOLEAN

\* The targets: bootstrap.yml on the cluster and docker-node.yml.
Targets == {"site", "docker"}

\* The parts of ansible/, and the targets whose playbook uses each of them.
UsedBy ==
    [ clusterRole  |-> {"site"},            \* k3s_config, openbao_setup, ...
      giteaSetup   |-> {"docker"},
      shared       |-> {"site", "docker"},  \* inventory/, playbooks/
      userSetup    |-> {"site", "docker"},  \* also the role preflight
      tailscale    |-> {"docker"},          \* tailscale_install
      hardening    |-> {"site"},            \* k3s_hardening
      dockerSetup  |-> {"docker"} ]         \* docker_install

ASSUME PartsAssumption == Parts \subseteq DOMAIN UsedBy

\* Slip: inventory and playbooks count as the cluster's.
FilteredSiteOnly ==
    [ clusterRole  |-> {"site"},
      giteaSetup   |-> {"docker"},
      shared       |-> {"site"},
      userSetup    |-> {"site"},
      tailscale    |-> {"site"},
      hardening    |-> {},
      dockerSetup  |-> {} ]

\* The targets that the patterns of detect-changes name for each part.
Filter ==
    [ clusterRole  |-> {"site"},
      giteaSetup   |-> {"docker"},
      shared       |-> {"site", "docker"},
      userSetup    |-> {"site"},
      tailscale    |-> {"site"},
      hardening    |-> {},
      dockerSetup  |-> {} ]

\* Slip: "all" stands for the cluster.
InputsAllCluster ==
    [ site |-> {"site"}, dockerNode |-> {"docker"}, all |-> {"site"} ]

\* The choices of workflow_dispatch, and the targets of each.
Inputs == [ site |-> {"site"}, dockerNode |-> {"docker"}, all |-> Targets ]

VARIABLES
    main,      \* the commits on main that touch ansible/, in order
    runs,      \* the workflow runs, in the order they started
    deployed   \* the version each target was last deployed from

vars == <<main, runs, deployed>>

JobStates == {"waiting", "running", "ok", "failed", "skipped"}

Runs == [ version : Nat,                      \* the commit checked out
          input : DOMAIN Inputs \cup {"push"},
          plan : SUBSET Targets,              \* run_site and run_docker
          detected : {"no", "yes", "failed"},
          beside : {"nobody", "another"},     \* history: did runs overlap?
          site : JobStates, docker : JobStates ]

TypeOK ==
    /\ main \in Seq(Parts)
    /\ runs \in Seq(Runs)
    /\ deployed \in [Targets -> 0..Len(main)]

Init ==
    /\ main = <<>>
    /\ runs = <<>>
    /\ deployed = [t \in Targets |-> 0]

-----------------------------------------------------------------------------

Over(run) == run.docker \in {"ok", "failed", "skipped"}
Quiet == \A i \in DOMAIN runs : Over(runs[i])

\* A run starts; those that are not over yet have it beside them.
StartRun(version, from) ==
    LET beside == IF Quiet THEN "nobody" ELSE "another"
        new == [version |-> version, input |-> from, plan |-> {},
                detected |-> "no", beside |-> beside, site |-> "waiting",
                docker |-> "waiting"]
        old == [i \in DOMAIN runs |->
                  IF Over(runs[i]) THEN runs[i]
                  ELSE [runs[i] EXCEPT !.beside = "another"]]
    IN
    /\ Overlap \/ Quiet
    /\ runs' = Append(old, new)
    /\ UNCHANGED deployed

\* Commits reach main in one push, which starts one run, of the last of them.
Push ==
    /\ \E commits \in UNION {[1..n -> Parts] : n \in 1..MaxPushCommits} :
         main' = main \o commits
    /\ Len(main') <= MaxCommits
    /\ StartRun(Len(main'), "push")

Pushed == {i \in DOMAIN runs : runs[i].input = "push"}
Dispatched == DOMAIN runs \ Pushed

\* Somebody starts the workflow by hand.
Dispatch ==
    /\ Cardinality(Dispatched) < MaxDispatches
    /\ \E input \in DOMAIN Inputs : StartRun(Len(main), input)
    /\ UNCHANGED main

Set(i, field, value) == runs' = [runs EXCEPT ![i][field] = value]

\* Slip: the input is taken for the name of a target.
DetectRawInput(i) ==
    LET run == runs[i] IN
    /\ run.detected = "no"
    /\ runs' = [runs EXCEPT ![i].detected = "yes",
                            ![i].plan = IF run.input = "push"
                                        THEN Filter[main[run.version]]
                                        ELSE {run.input}]
    /\ UNCHANGED <<main, deployed>>

\* A manual run does what it is told, a push what the last commit touches (git
\* diff HEAD~1 HEAD).
Detected(run) == IF run.input = "push" THEN Filter[main[run.version]]
                 ELSE Inputs[run.input]

\* detect-changes.
Detect(i) ==
    /\ runs[i].detected = "no"
    /\ runs' = [runs EXCEPT ![i].detected = "yes",
                            ![i].plan = Detected(runs[i])]
    /\ UNCHANGED <<main, deployed>>

\* detect-changes fails and leaves its outputs empty: neither target is planned.
DetectFails(i) ==
    /\ JobsMayFail
    /\ runs[i].detected = "no"
    /\ Set(i, "detected", "failed")
    /\ UNCHANGED <<main, deployed>>

\* deploy-cluster starts, or is skipped.
StartSite(i) ==
    /\ runs[i].detected # "no" /\ runs[i].site = "waiting"
    /\ Set(i, "site", IF "site" \in runs[i].plan THEN "running" ELSE "skipped")
    /\ UNCHANGED <<main, deployed>>

\* Slip: without always(), a job whose predecessor was skipped is skipped.
StartDockerAfterSuccess(i) ==
    /\ runs[i].docker = "waiting"
    /\ runs[i].site \in {"ok", "failed", "skipped"}
    /\ Set(i, "docker",
           IF "docker" \in runs[i].plan /\ runs[i].site = "ok"
           THEN "running" ELSE "skipped")
    /\ UNCHANGED <<main, deployed>>

\* deploy-docker waits for deploy-cluster and starts unless that has failed.
StartDocker(i) ==
    /\ runs[i].docker = "waiting"
    /\ runs[i].site \in {"ok", "failed", "skipped"}
    /\ Set(i, "docker",
           IF "docker" \in runs[i].plan /\ runs[i].site \in {"ok", "skipped"}
           THEN "running" ELSE "skipped")
    /\ UNCHANGED <<main, deployed>>

\* The playbook has run to its end, from the commit the run has checked out.
JobSucceeds(i, t) ==
    /\ runs[i][t] = "running"
    /\ Set(i, t, "ok")
    /\ deployed' = [deployed EXCEPT ![t] = runs[i].version]
    /\ UNCHANGED main

JobFails(i, t) ==
    /\ JobsMayFail
    /\ runs[i][t] = "running"
    /\ Set(i, t, "failed")
    /\ UNCHANGED <<main, deployed>>

Next ==
    \/ Push \/ Dispatch
    \/ \E i \in DOMAIN runs :
         \/ Detect(i) \/ DetectFails(i) \/ StartSite(i) \/ StartDocker(i)
         \/ \E t \in Targets : JobSucceeds(i, t) \/ JobFails(i, t)

Spec == Init /\ [][Next]_vars

-----------------------------------------------------------------------------
\* Properties.

\* No commit after the version a target was deployed from changes that target.
Current(t) ==
    \A i \in DOMAIN main : i > deployed[t] => t \notin UsedBy[main[i]]

\* "Triggers on merge to main for any Ansible changes": when every run is over,
\* no change of ansible/ on main waits for another push to be deployed.
EveryChangeDeployed == Quiet => \A t \in Targets : Current(t)

Failed(run) == "failed" \in {run.detected, run.site, run.docker}

\* A target can be behind a change for four reasons only: the commit was not the
\* last one of its push, the filter does not know the part for the target's, the
\* run of the push failed or is not over, or another run was beside it, which
\* may have deployed an older version after it.
LostChangeExplained ==
    \A i \in DOMAIN main : \A t \in UsedBy[main[i]] \cap Filter[main[i]] :
      deployed[t] >= i \/
      \A r \in DOMAIN runs :
        runs[r].input = "push" /\ runs[r].version = i =>
          ~Over(runs[r]) \/ Failed(runs[r]) \/ runs[r].beside = "another"

\* Whatever pushes, failed jobs and overtaken runs have left undone, a manual run
\* of "all" that succeeds, with no run beside it, repairs.
DispatchRepairs ==
    LET last == runs[Len(runs)] IN
    Quiet /\ runs # <<>> /\ last.input = "all" =>
      \/ Failed(last) \/ last.beside = "another"
      \/ \A t \in Targets : Current(t)

-----------------------------------------------------------------------------
\* The inductive invariant behind the properties.

\* A run goes through its jobs in their order and skips what is not planned.
InOrder(run) ==
    /\ run.version <= Len(main)
    /\ run.input = "push" => run.version > 0
    /\ run.detected = "yes" => run.plan = Detected(run)
    /\ run.detected = "no" => run.site = "waiting"
    /\ run.site \in {"waiting", "running"} => run.docker = "waiting"
    /\ run.site = "skipped" => "site" \notin run.plan
    /\ run.docker = "skipped" => "docker" \notin run.plan \/ run.site = "failed"

JobsInOrder == \A i \in DOMAIN runs : InOrder(runs[i])

\* A later run has not an older version, and of two runs of which one saw nobody
\* beside it the earlier one is over.
RunsInOrder ==
    \A i, k \in DOMAIN runs : i < k =>
      /\ runs[i].version <= runs[k].version
      /\ "nobody" \in {runs[i].beside, runs[k].beside} => Over(runs[i])

\* What a run deployed with nobody beside it is not replaced by something older.
NothingOlder ==
    \A i \in DOMAIN runs : \A t \in Targets :
      runs[i].beside = "nobody" /\ runs[i][t] = "ok"
        => deployed[t] >= runs[i].version

\* Every push starts a run.
LastIsMain == runs # <<>> => runs[Len(runs)].version = Len(main)

\* There are not more runs than pushes, each with a commit, and manual runs.
Bounded ==
    /\ Len(main) <= MaxCommits
    /\ Cardinality(Pushed) <= Len(main)
    /\ Cardinality(Dispatched) <= MaxDispatches

DeployInv ==
    JobsInOrder /\ RunsInOrder /\ NothingOlder /\ LastIsMain /\ Bounded
=============================================================================
