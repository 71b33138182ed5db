# Specifications of chalupa-infra

`chalupa-infra` runs a small home cluster: Ansible playbooks that install and
maintain k3s on seven nodes (three servers, four agents) and Gitea on a Docker
host, GitHub workflows that run those playbooks,
Argo CD charts, scripts that mint service tokens, and Go programs that generate
Grafana dashboards. Little of it runs for long, and nearly all of it can be
interrupted: a playbook is aborted half way and run again, a Job is killed by
the next sync, two workflow runs overlap, a node stays down. These modules
describe the parts whose correctness depends on such orders of events.

Run everything from this directory:

    tlc -workers 2 -config RollingRestart_quorum.cfg MCRollingRestart.tla
    tlapm RollingRestartProofs.tla

`PROJECT.json` lists the runs, what each module's definitions translate, the
slips (deliberately wrong variants) that each property detects, the findings,
the hazards and the theorems.

## Inventory

| Component | State it keeps | Operations | Hard behaviour | Correct when |
|---|---|---|---|---|
| Grafana token mint (`grafana-sa-mint-script-cm.yaml`, its Job) | tokens Grafana accepts; the token in OpenBao | login, check, find or create the account, list, delete, mint, store | two stores updated one after the other; retries, kills by Argo CD, a manual Job beside the hook, answers that get lost | the stored token is accepted; rotation revokes the old one; a sync takes nothing away |
| Rolling restart (`k3s-rolling-restart.yml`) | config on disk and loaded; nodes up, Ready, cordoned | configure all; drain, restart, wait, uncordon one by one | waits on conditions that lag; aborted runs and reruns; crashes; a bootstrap beside it | etcd quorum kept; success means rolled out and uncordoned |
| Flannel migration (`k3s_flannel_migrate`) | unit file, systemd's copy, running backend, VXLAN interface | check; cordon, drain, stop, rewrite, start, wait, assert, uncordon | reruns decide by a file rewritten half way; a wait on a condition that lags | one node out at a time; success means migrated; servers first |
| Deployment workflow (`deploy-infra.yml`) | commits on main, runs, deployed version of each target | push, dispatch, detect, deploy cluster, deploy Docker node | overlapping runs, several commits in a push, skipped and failed jobs | every change gets deployed |
| Dashboard layout (`scripts/dashboards`) | the panels placed, the y-base | one function per row; compose | heights, ids and rectangles written by hand in sixteen files | panels do not overlap, ids are unique |
| Canonical JSON and drift gate (`normalize.go`, `build.sh`, `validate-dashboards.yml`) | main, branches, sources and rendered files, checks | render, edit, push, merge main, check, merge | Go's map order; a build cut off half way; checks that main has overtaken; git merging files nobody rendered | one rendering per source; main's files are what its sources render to |
| Bootstrap (`bootstrap.yml` and its roles) | installed version, config, registries, snapshot configuration | provision each group, finalize, snapshots, registries | handlers lost when a run is cut off; a handler that restarts every server at once; config written and not loaded | success means written and read; servers in turn |
| OpenBao set-up and unseal | volumes, seal state, raft members, unseal key | init, save key, unseal, join, configure | every pod restart seals; failures ignored; races with leader election | one cluster ever; key never lost; unsealed after the playbook |
| Promotion, demotion, rejoin | etcd members, node objects, installed role | drain, remove member, uninstall, install | stale members, quorum while membership changes | quorum kept; one member per server |
| Gitea (`docker-node.yml`, `gitea_setup`) | the database password in OpenBao, Postgres and Gitea; the account token in OpenBao and Gitea | seed, fetch, deploy; check, delete, generate, store | jobs of overlapping workflow runs side by side; jobs that die between two stores | the copies agree; what one job leaves undone the next repairs |
| Telemetry token | token in OpenBao, its copy in a GitHub secret | check, generate, store, copy by hand | as the Grafana mint | copies agree |
| TimescaleDB migration | source, dump, target database | dump, drop, restore, compare, delete | the dump is deleted whatever the comparison shows | no row lost |
| Argo CD sets, charts, host roles, lints, `dns-recovery.sh` | – | – | declarative, or linear over external tools | not modelled |

How the parts meet: the workflow runs bootstrap on the cluster and
`docker-node.yml` on the Docker host; bootstrap writes configuration that only
the rolling restart loads; restart and migration drain nodes and so restart
OpenBao pods, which seals them; the mint Jobs need OpenBao unsealed and are
restarted by Argo CD's syncs; the generated dashboards reach Grafana through
the charts.

## Modules

| Module | What it is |
|---|---|
| `GrafanaMint`, `GrafanaMintProofs`, `MCGrafanaMint` | the mint script run by the hook Job and by rotation Jobs |
| `K3sCluster` | the cluster as the playbooks see it (external): up, Ready, cordoned, quorum |
| `RollingMaintenance` | abstract: a node goes out only while every other node serves, and is back before the next |
| `RollingRestart`, `RollingRestartProofs`, `MCRollingRestart` | the rolling restart, extending `K3sCluster`, implementing `RollingMaintenance` |
| `RollingHistory` | the rolling restart with the history of the stale conditions it has believed, and what holds until it has believed one |
| `Bootstrap`, `BootstrapProofs`, `MCBootstrap` | `bootstrap.yml`, composed with the rolling restart it may run beside |
| `FlannelMigrate`, `FlannelMigrateProofs`, `MCFlannelMigrate` | the flannel migration, on the same cluster and abstract specification |
| `OpenBao`, `OpenBaoProofs`, `MCOpenBao` | the role `openbao_setup` and the playbook `openbao-unseal.yml`, on three pods that may restart and lose their volume |
| `DeployInfra`, `MCDeployInfra` | the deployment workflow |
| `GiteaSetup`, `MCGiteaSetup` | the role `gitea_setup` inside the workflow's Docker jobs |
| `DeployProofs` | what is proved of the workflow and of the role |
| `DashboardCompose`, `DashboardRows`, `DashboardProofs`, `MCDashboard` | how rows are stacked; the rows themselves; that rows which fit, fill and have ids of their own can be stacked in any order |
| `DashboardJson` | the canonical encoding, over the orders in which Go may walk a map |
| `DashboardGate`, `DashboardGateProofs` | pull requests, the check and git's merge, for any renderer; that the encoding gives a source one file |
| `DashboardRender`, `MCDashboardGate` | the renderer of the three generators, over that encoding |

Operators whose comment starts with *Slip* are not part of a specification:
each is a wrong variant of the definition below it that some property detects.

### How the modules correspond to the code

**GrafanaMint.** One `curl` call of the script is one action, and `pc[j]` is
the step of the script Job `j` is at. `kv` is the token under `$KV_PATH`,
`live` the tokens Grafana accepts, numbered as they are issued. `Fail` is a call
that fails before it has changed anything, or a pod that dies; a lost answer is
a disjunct of `MintToken` and `StoreToken`. `Exit1` is `backoffLimit`, `Sync`
the deletion and re-creation of the hook. The shell's treatment of failure is
part of the actions: the check of step 3 ends in `|| true`, and the status of a
pipeline is that of its last command, so an unanswered read or list looks like
an empty one (`ReadMayFail`, `ListMayFail`). `disturbed`, `broken` and
`unlisted` are history variables that say which Jobs shared or left their
window, and which got no answer to their listing.

**RollingRestart.** One task is one action; `Poll` is `retries`/`until`. Both
restart plays have `serial: 1`, so a failed task ends the run; in phase 1 a
failed host is only left out. `opts` are the two extra variables, `limit` is
`--limit`. The restart of the service has no timeout: on a server,
`AwaitService` ends it when k3s has come up and notified systemd, or when
systemd gives the unit up, and nothing else does (`Waiting`); an agent's restart
returns at once. A node's process starts when the environment lets it
(`NodeStarts`), perhaps never. With `StaleReady` the Ready condition of a
stopped node stays "True" until `NoticeDown`. The two playbook pauses change
nothing and are left out: they make a stale condition less likely and exclude
nothing.

**Bootstrap.** `bplay` is the install play (`Groups`, in the playbook's order)
and `bpc` its task; then come the play of the primary, the snapshot play
(`serial: 1`) and the registry play (all nodes at once). The installer of a
due host works, fails, or ends with 0 and has done nothing (`kept` in
`BootInstall`: a download that failed in `curl ... | sh -`). A task runs on the
hosts that have not failed; the run goes on as long as one host of the play is
left. `written` says which files are on which disk, `read` which of them the
node's k3s process has read since it started: `RunHandler` restarts the hosts
whose task *changed* the file, and a host that fails before its handler keeps a
file it never reads, because the next run's task changes nothing (`dropped`).
The rolling restart's actions are those of `RollingRestart`, each conjoined with
what it does to `read` (`Roll`); nothing in the code keeps the two playbooks
apart, so they interleave.

**FlannelMigrate.** `Check` reads the unit file, as the role does; `TaskFails`
may end the run at any task of the block. `wanted`, `systemd` and `wireguard`
separate what systemd was told, what it has read and what runs. `Start` holds
the role back until a server is up; the start of an agent returns at once. The
wait for Ready is ended by what the API shows, stale or not.

**OpenBao.** A store is what one `bao operator init` creates; a pod's `data` is
the store its volume belongs to, `join` the one it has asked to join, `members`
the raft membership, `leader` the stores with an elected leader. Those, `Elect`,
`RetryJoin`, `PodStops` and `PodStarts` are external: OpenBao, its retry_join
stanzas and the kubelet. So is `CanUnseal`, the exit status 0 of `bao operator
unseal`: the key fits, or the pod is open already, whatever the key. `initFile`
is the file the role leaves on the primary, `vault` the copy in Ansible Vault,
which a person makes (`RecordKeys`); both programs read it when they start. One
task, or one item of a task's loop, is one action; registered results live in
`setup` and `unseal` and are lost with the run; `listed` is the playbook's list
of running pods, which it goes on using after they have changed. `calm` is
history: nothing happened to the pods while the run was under way; `whole` says
there was something to restore when the playbook looked.

**DeployInfra.** A commit is the part of `ansible/` it touches. `UsedBy` is read
off the plays of `bootstrap.yml` and `docker-node.yml`, `Filter` off the
patterns of the workflow; the properties compare the two. `beside` is history:
another run was under way at the same time. `MCDeployInfra` is instantiated for
the finding only; the passing run is that of `GiteaSetup`.

**GiteaSetup.** The Docker job of a run, one step in `DeployInfra`, becomes the
tasks of the role: `task[i]` is the one run `i` is at and the password or token it
has registered. Secrets are numbers, and a random draw is a number nobody holds,
so that the state stays finite however many are drawn. A failed call ends the
job (`DockerFails`), and so does one that was made and not answered. The wait for
Gitea and the tasks that use it are the guard `Answers`: they need Gitea and
Postgres to have the same password.

**Dashboards.** A row is the height it returns and its panels' rectangles
relative to its y-base, taken from the `layout.Pos` calls; `Build` is the body
of `compose()`'s loop. The Go SDK positions a panel by itself only when its
position is (0, 0), where it would put the first panel anyway.

**DashboardJson, DashboardRender, DashboardGate.** An encoder whose result
depends on the order of a map is the *set* of its outputs; `Render` builds twice
and compares, as `Render()` does. `EncodeFrom` is the body of `encode()`, given
the outputs of a value's parts; its recursion is written out as deep as the
modelled dashboard goes (`Encode` down to `EncodeLeaf`), so that it can be
reasoned about. A source is the heights of its rows, each row in a file of its
own; a rendered file is a sequence of lines with the y and the height of every
row, so that git's merge can be modelled for what it is: two changes of one base
meet line by line, without anybody rendering (`MergeTrees`). `Push` fixes the
commit of main the check runs against (`on`); main may move on before `Merge`.

## Runs

| Run | Bounds | Question and result |
|---|---|---|
| `mint` | hook, 1 rotation Job, 2 syncs, 1 deletion of the entry, 1 retry, all failures, fair | a dead stored token is always explained by a Job that died in its window or shared it; a store by a Job that was alone and had its listing leaves one accepted token; every step of a Job brings it closer to its end; a rotation Job ends |
| `mint_unanswered_read` | no rotation, 3 syncs | violated: see Findings |
| `restart_quorum` | 3 servers, 1 agent, 2 runs, 1 crash, 2 polls, stale Ready, pre-flight, fair | until a node crashes: quorum kept and `RollingMaintenance` implemented, unless a stale condition has misled a wait or the pre-flight check; a first run without reboots keeps quorum, and implements `RollingMaintenance` of the servers, stale or not: the restart itself holds the play back; in any case: every step leaves a run with fewer tasks or polls; every run ends, unless it waits for a server's k3s to notify systemd |
| `restart_stale` | as `restart_quorum`, 1 run, no crash, 1 poll | violated: see Findings |
| `bootstrap_beside` | 2 servers, 1 agent, 1 crash, 2 runs in all of the two playbooks, stale Ready, failing hosts | a successful bootstrap has written the files it manages, and only a run cut off before a handler leaves a process that has not read them; a first one restarts the servers in turn outside the registry play; a successful rolling restart has rolled out and uncordoned |
| `flannel_once` | 3 servers, 2 agents, 1 run, stale Ready, failing tasks | the servers go one at a time and first; success means that every node has the new unit, no VXLAN interface and no cordon, and every server is up; an agent may still be down |
| `flannel_skipped` | 3 servers, 1 agent, 2 runs | violated: see Findings |
| `deploy_gitea` | 2 commits in pushes of up to 2, 2 parts, 1 dispatch, overlapping runs, failing jobs, 1 loss of an OpenBao entry | a change is lost for four reasons only; a dispatch of "all" that is alone and succeeds repairs everything; the stored Gitea token is accepted unless two jobs replaced it together; a lone successful job leaves Gitea at work |
| `deploy_two_commits` | 2 commits in one push, nothing else goes wrong | violated: see Findings |
| `dashboards` | the three real dashboards, every row order one edit away | no overlap, unique ids, exact heights |
| `dashboard_gate` | 3 pull requests of 1 edit, 2 dashboards of 3 rows and 1 row, 2 heights | a source has one rendering; main's files leave their sources only in one, named, way |
| `openbao` | 3 pods, 1 stop that may lose the volume, 2 runs of the role, 1 of the playbook, 2 stores | one store as long as openbao-0 keeps its volume; its key kept; an undisturbed run opens every pod, the role's in that one store |

Where the code cannot promise a property outright, the run checks it in an
*explained* form: what was promised holds, or one of the named causes has
happened. The list of causes is the content of the property: dropping one from
`DeadTokenExplained`, `OneLiveToken`, `LostChangeExplained`, `SuccessLoads`,
`StoredTokenAccepted`, `OneStore`, `SetupOpens`, `MainInStep`,
`QuorumUnlessMisled` or `RollsUnlessMisled` makes TLC find
the behaviour behind it.

**Why the bounds are enough.** The mint protocol's interference is between two
Jobs; a third adds no new pair, and retries and syncs beyond two repeat a
position. The inventory has three servers, whose quorum is lost with the second
one down; all agents are alike. An abort and its rerun are the two runs the
hazards need, and two playbooks beside each other are two runs as well; one
server in each install play and one agent give every play a host that can fail
and one that goes on. Every run of the
playbooks allows stale Ready conditions (`StaleReady = TRUE`). With reboots
nothing else holds the rolling restart back: `restart_stale` shows what they do
to it, and `restart_quorum` that nothing else does it. The flannel properties
hold of one run and, as `flannel_skipped` shows, not of two. A change of
`ansible/` is lost to a second commit of its push or to a second run; both are
there, and the dispatch is a third run, so that two jobs can leave what a third
one finds. With a third part, `shared`, `deploy_gitea` passes as well (15
million states). OpenBao's protocol distinguishes openbao-0 from the followers
and two followers from each other (one lost, one kept); a second store is the
only way to have more than one. Two pull requests make a stale check; the third
can be the one a finished check meets; three rows are needed for two different
edits above a common third. The dashboards of `dashboards` are the committed
ones. Every bound is a constant with a name that says so (`Max...`, `Retries`,
`BackoffLimit`). The theorems below hold for every value of the constants.

`CHECK_DEADLOCK FALSE` stands in each configuration because every program here
ends: when the bounded runs, syncs, edits or rows are used up, nothing is left
to do.

**Fairness.** `GrafanaMint!FairSpec` (run `mint`): the kubelet runs a started
container, and Kubernetes retries a failed one; nobody has to sync, rotate or
delete. `RollingRestart!Fairness` (run `restart_quorum`): Ansible goes on with a
run it has been given; nobody has to start one, and no node has to come back. Both
take it that every call ends: `curl` has no `--max-time` in the script and the Job
no `activeDeadlineSeconds`, and a poll is one call of `kubectl`, which gives up on
a server that does not answer. What the playbook waits for without any bound is
excluded from the fairness: the restart of a server's service, until k3s notifies
systemd (`~Waiting`). `RunEnds` therefore says that every run ends unless it waits
there for ever. The other runs check invariants and safety refinements and assume
no fairness.

## Findings

1. `mint_unanswered_read`: a read of OpenBao that fails counts as "no token", so
   a plain sync revokes the stored token, against "skips if a token already
   exists" (`grafana-sa-mint-script-cm.yaml:2`).
2. `restart_stale`: the wait for Ready can be ended by the condition from before
   the restart; two of three servers are then down together.
3. `flannel_skipped`: after an abort past the rewriting of the unit file, a rerun
   skips the node and reports success.
4. `deploy_two_commits`: only the last commit of a push is looked at.

More that the properties name, without a run of their own:

- The flannel role's wait for Ready can be ended by the condition from before the
  stop, too, and systemd does not wait for an agent: the next agent is drained and
  stopped while the last one is still down (`tasks/main.yml:68-80`). That is why
  `MigratesServers` speaks of the servers, and why `SuccessGivesBackend` does not
  promise that an agent is up.
- A failed download of the installer ends with 0 (`remote/install.sh:137`, no
  `pipefail`), so that a bootstrap may succeed with the old binary; only
  `k3s-version-check.yml` would tell (`kept` in `BootInstall`; `SuccessLoads`
  promises nothing of the binary).
- With openbao-0 initialized anew after it has lost its volume, followers that are
  open in the old store pass the role's unseal, which wants rc 0 only
  (`openbao_setup/tasks/main.yml:122-131`), and the role ends well with two stores
  (`SetupOpens` promises one store as long as openbao-0 keeps its volume).
- A listing of tokens that fails counts as "no tokens": a rotation then succeeds
  and the old token stays accepted (`grafana-sa-mint-script-cm.yaml:57-64`).
  `OneLiveToken` excludes such Jobs (`unlisted`).
- Of two overlapping workflow runs the older may finish last and put the older
  version back (`LostChangeExplained`, `beside`).
- The filter does not know all the roles the playbooks use (`k3s_hardening`,
  `docker_install`, and `tailscale_install` for the Docker node); a commit of
  those alone deploys nothing (`UsedBy` and `Filter` in `LostChangeExplained`).
- A file written by a bootstrap that is cut off before its handler is never read
  because of a later bootstrap: the template does not change again
  (`SuccessLoads`, `dropped`). Only another restart of the node repairs it.
- The registry handler restarts every server it notified at the same time
  (`ServersInTurn` excludes the registry play), and `config.yaml` is not loaded
  by a bootstrap at all.
- Two jobs that both find no Gitea token may leave a token in OpenBao that Gitea
  has deleted, and both succeed (`StoredTokenAccepted`, `crossed`). No later run
  repairs it: the check sees an entry (`rotate_token.yml:10-19`).
- openbao-0 decides alone whether OpenBao is initialized
  (`roles/openbao_setup/tasks/main.yml:26-43`). With its volume lost and its
  peers sealed, a bootstrap creates a second store and overwrites the first
  one's keys on the primary (`OneStore` holds while openbao-0 keeps its volume).
- The unseal key exists only in the output of `init` until the next task saves it
  (`KeyKept`, `unsaved`).
- Two pull requests that change one dashboard and are checked side by side may
  both pass, merge without a conflict, and leave on main a file no source renders
  to: each of two lengthened rows shifts the rows below it, and git takes two
  equal shifts for one (`MainInStep`).
- The framework document mints, then deletes
  (`docs/service-account-framework.md:210-213`); the script deletes, then mints,
  and for a while no token is accepted.

One comment is merely out of date: `simulator_health.go:24` speaks of three
panels where there are four.

## What is proved

Every theorem holds for every value of the constants that satisfies the named
`ASSUME`s of the modules (an inventory, for instance, is any finite one). Each
rests on an inductive invariant, stated where the module says "The inductive
invariant" and checked by TLC on the run's instance before it was proved; each
proof has one step per action. An assumption beyond those of the constants
stands in the theorem and is named below.

`GrafanaMintProofs` (any set of rotation Jobs, any number of retries, syncs and
deletions):

- `TypeCorrect`;
- `DeadTokensExplained`, `Spec => []DeadTokenExplained`. The property is not
  inductive: it says nothing of a Job about to store. The invariant `IInv` adds
  that an undisturbed Job is alone in its window (`AloneInWindow`) and that what
  it is about to store is accepted (`MintedTokenLive`).
- `RotationRevokes`, `Spec => []OneLiveToken`, from `DeletesTheRest`: what an
  undisturbed Job that has its listing has still to delete, or has minted, is all
  that Grafana accepts.
- `EveryJobIsBounded`, the part of the liveness property `JobEnds` that needs no
  fairness: the triple of retries left, stages left and listed tokens left goes
  down, in this order, with every step of a Job, and nothing else touches it but
  the sync that replaces the hook. Tokens are numbered (`Listings`), so a listing
  is finite, however many Jobs mint.

`RollingRestartProofs` (any inventory):

- `TypeCorrect`;
- `RollingKeepsQuorum`, assuming at least three servers and the pre-flight check
  (`Preflight`), and `RollingImplementsMaintenance`, assuming the check:
  `QuorumUnlessMisled` and `RollsUnlessMisled` over any number of runs, reboots,
  aborts and reruns. They are about `HistorySpec`, which adds the history variable
  `misled` and restricts nothing (`HistoryImplementsRestart` is the direction the
  proofs need: its behaviours are behaviours of the playbook). `OneDownInv` says at
  which tasks every node is up and that elsewhere only the current host is down;
  a wait or a check that lets the play go on has seen the truth, or `misled` is set;
- `RestartingKeepsQuorum`, assuming at least three servers, and
  `RestartingImplementsMaintenance`, with no assumption: what a first run that
  restarts the service does to the servers, stale Ready conditions included.
  `ServiceInv` says that every server is up at every task but the restart, where
  only the current host may be down; the waits after it are not needed for it.
  `OneDownHasQuorum` counts;
- `SuccessfulRunUncordons`, with no assumption: `CordonInv` says that a cordoned
  node is still to come, has failed or is the current host;
- `SuccessfulRunRollsConfig`, with no assumption. `ConfigInv`: every node has the
  new file or has failed, and one that serves without having read it is still to
  come, has failed, or is the current host before its restart. That a node may
  crash and start meanwhile does no harm: it reads the file that is there;
- `EveryRunIsBounded`, with no assumption: the number of tasks left (`TasksLeft`,
  at most nine for each host and three for phase 1) goes down with every step of
  the playbook that is not one of a task's `Retries` polls, and nothing the nodes
  do makes it grow. This is the measure behind `RunEnds` (the wait at a server's
  restart is no step); it is also what says
  that no failure of a host makes a run go back.

`BootstrapProofs` (any inventory and install groups that cover it; any number of
runs of both playbooks, failures, crashes, stale Ready conditions):

- `BootTypeCorrect`;
- `RollingBesideBootstrap` and `UncordonedBesideBootstrap`: the two properties of
  a successful rolling restart survive `bootstrap.yml` beside it, because all it
  does to what `CordonInv` and `ConfigInv` speak of is to stop processes and to
  write `config.yaml` (`BootFrame`);
- `SuccessfulBootstrapLoads`. `InstallInv` follows the install plays: every group
  behind the current one has the configuration, or has failed; of the binary it
  says nothing, because of the downloads that fail unnoticed.
  `FilesInv` follows the files: the snapshot play has come to the servers in
  their order, which is why no two hosts may have the same place in the inventory
  (`BootstrapAssumption`). `ReadInv` is about what has been read: a file on a node
  that serves has been read, has lost its restart (`dropped`), or waits for the
  handler of the current play (`Pending`). Without `Alive` (a task has no host
  that has failed) a host could fail and still be notified.
- `FirstBootstrapInTurn`, assuming `ServersApart`: an install group with a server
  has no other host, as in `ansible/inventory/hosts.yml`. `TurnInv` says at which
  tasks every server is up and that elsewhere the one being restarted is a host of
  the task.

`FlannelMigrateProofs` (any inventory, any number of runs):

- `TypeCorrect`;
- `ServersMigrateFirst`, with no assumption: `BackendInv` ties the backend a
  process runs to the unit file systemd had read, `ServersInv` says that a run
  that has come to the agents has been over every server;
- `FirstRunMigrates`, with no assumption, for the first run only:
  `flannel_skipped` shows that a second run may skip a node. `FirstRunInv` says at
  which tasks the servers serve (the start of one returns when it is up) and which
  nodes have the new unit; that an agent runs is not promised, because nothing waits for it.
- `MigrationImplementsMaintenance`, with no assumption: the first run implements
  `RollingMaintenance` of the servers (later runs map to stuttering, for the same
  reason; `OutInFirstRun`).

`DeployProofs`, of `DeployInfra` (any parts, filter and use of parts, any number
of commits, pushes and manual runs, overlapping or not):

- `DeployTypeCorrect`;
- `LostChangesExplained`. Of `DeployInv`: the runs of pushes are in the order of
  their versions (`RunsInOrder`), each goes through its jobs in order
  (`JobsInOrder`), and what a run deployed with nobody beside it is not replaced
  by something older (`NothingOlder`).
- `DispatchAllRepairs`, from `LastIsMain`: the last run to start has checked out
  the last commit on main.

`DeployProofs`, of `GiteaSetup` (the same, and any number of lost entries):

- `GiteaImplementsDeploy`, `GiteaSpec => Spec`: the workflow with the tasks of the
  role inside its jobs is a behaviour of the workflow, so that the theorems above
  hold of it, and its invariants can be used below;
- `GiteaTypeCorrect`;
- `StoredTokenIsAccepted`. `TokenInv`: as long as no two jobs have replaced the
  token at the same time, a job that is replacing it is alone in doing so, the
  entry is gone meanwhile, and what it is about to store is accepted.
- `SuccessfulJobSettles`, from `LastRunInv`: what a run with nobody beside it has
  settled by each of its tasks.

`OpenBaoProofs` (any number of followers, runs, stores, stops and lost volumes):

- `BaoTypeCorrect`;
- `InitializedOnce`. openbao-0 decides alone: as long as it keeps its volume it
  has the one store there is (`FirstDecides`), which makes the property inductive.
- `KeysAreKept`: `KeyKept` is inductive with the type invariant, given `KeyInHand`
  (a run between `init` and the next task holds the key in its registered result);
- `RoleOpensAll`: `Led` and `Opening` say, for a run that no pod has disturbed,
  which pods are open at each of its tasks and which are still on its list. That
  they are in one store is `FirstDecides`, and so holds as long as openbao-0 keeps
  its volume;
- `PlaybookUnsealsAll`: `Classified` and `Restoring` do the same for the playbook
  and its lists of sealed and uninitialized pods, which it goes on using after it
  has made them.

`DashboardProofs` (any rows, dashboards and orders):

- `TypeCorrect`;
- `RowsStack`: rows whose panels fit the heights they return (`AllFit`) can be
  stacked in any order without two panels overlapping. The invariant is
  `AboveBase`: everything placed so far ends at or above the y-base.
- `RowsFill`: if they also reach those heights (`AllFill`), every dashboard is
  filled to the y-base and no further (`HeightsExact`);
- `IdsStayUnique`: if the places of an order have ids of their own
  (`AllIdsApart`), so has every panel (`UniqueIds`). `IdsInv` keeps the rows still
  to come apart from each other and from the panels placed.

TLC checks `AllFit` of the real rows as an assumption of `MCDashboard`; that they
fill their heights and have ids of their own is what `HeightsExact` and
`UniqueIds` say of them in the run `dashboards`, where each row is placed.

`DashboardGateProofs` (any finite set of pull requests, any dashboards and rows,
any renderer unless one is named, the ones that give a source several files
included):

- `MainStaysInStep`. What makes `MainInStep` inductive: the outcome of a check
  that passed still holds of what the pull request is (`CheckInv`), and as long as
  no merged pull request has changed a dashboard, all commits of main have the
  same one (`UntouchedInv`), so that the first change fits whichever of them it was
  checked on. With a second change neither helps, and `fresh` is needed.
- `GateTypeCorrect`, assuming `OneShape`: the files a dashboard is rendered to
  differ only in the values of their lines. TLC checks that of the modelled
  renderer as an assumption of `MCDashboardGate`;
- `EveryRenderAgrees` (`OneRendering`), assuming `Generated`: the renderer is the
  encoder of the generators, as it is in the run. Edits and merges leave sources
  (`SourcesInv`). `ShuffledAlike`: the rows a map's values can be put in do not
  depend on the order it is walked in, so its keys come out of the sort in one
  order (`KeysOnce`), and the two orders of the tags give the same ones
  (`TagsAlike`). `EncodeOnce` holds of a value of any shape: with one output for
  each part, it has one; it is applied from the grid position up to the root.

Only model-checked:

- the liveness properties `JobEnds` and `RunEnds`. What bounds a Job and a run is
  proved (`EveryJobIsBounded`, `EveryRunIsBounded`); that the next step is
  possible and taken needs ENABLED and fairness, which the prover does not have
  here;
- `OneShape`, the assumption of `GateTypeCorrect`: how many lines `encode()` writes
  is a fold over its parts, and what a fold computes for every input is out of the
  prover's reach.

## Not modelled

Wall-clock time (a timeout may always happen or never), the contents of
configuration files, pods and their eviction beyond a drain that may fail,
network partitions between nodes that are up. The pods of `OpenBao` and the
nodes of `K3sCluster` are not composed: a drain is one of the causes of
`PodStops`, which may happen at any time. Of bootstrap, the host roles that
prepare a machine and the Argo CD installation are a task that succeeds or
fails; of OpenBao, the policies and roles that `Configure` writes are one step, and
two runs of the role at the same time are left out (the playbook beside it is
there); of
Gitea, users, organizations, the proxy and the OIDC source are left out.

Components left out, with the reason:

- *Promotion, demotion and rejoin of servers*: their correctness lies in how
  etcd and k3s treat a member whose data is gone, which is not in this
  repository; a model would check our guess of it.
- *Telemetry token, TimescaleDB migration*: in reach, see the plan.
- *Queries and styling of the dashboards*: constant text with no state.
- *Argo CD sets, charts, host roles, lints*: declarative.
- *`dns-recovery.sh`*: linear over external tools.

## Plan

1. `TelemetryToken`: the token in OpenBao and its copy in GitHub.
2. `TimescaleMigrate`.
