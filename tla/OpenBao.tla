------------------------------ MODULE OpenBao ------------------------------
(***************************************************************************)
(* The two programs that bring OpenBao up:                                 *)
(*   ansible/roles/openbao_setup/tasks/main.yml   (bootstrap.yml,          *)
(*                                                 openbao-only.yml)       *)
(*   ansible/playbooks/openbao-unseal.yml                                  *)
(* and the three pods they work on (k8s/platform/openbao/values.yaml), each *)
(* with its own raft volume on the disk of a node.  A pod that restarts is *)
(* sealed; a pod whose node was wiped (demote-server.yml, k3s_cleanup)     *)
(* restarts without data and joins again.  The role and the playbook may   *)
(* run at the same time: a push to main runs bootstrap.yml by itself.      *)
(*                                                                         *)
(* A store is what one "bao operator init" creates, with a key of its own  *)
(* (1 of 1); stores are numbered and named by their key, 0 is none.  One   *)
(* task, or one item of a task's loop, is one action.                      *)
(***************************************************************************)
EXTENDS Naturals, Sequences, FiniteSets

CONSTANTS
    PodList,    \* the pods, in the order kubectl and the loops name them
    MaxStops,   \* bound: how often pods stop
    MaxLosses,  \* bound: how many of those lose the volume
    MaxStores,  \* bound: stores initialised
    MaxSetups,  \* bound: runs of the role
    MaxUnseals  \* bound: runs of the playbook

Pods == {PodList[i] : i \in DOMAIN PodList}
First == PodList[1]   \* openbao-0

ASSUME PodsAssumption ==
    /\ Len(PodList) > 1   \* openbao-0 and its followers
    /\ PodList \in Seq(Pods)
    /\ \A i, j \in DOMAIN PodList : PodList[i] = PodList[j] => i = j

ASSUME BoundsAssumption ==
    /\ MaxStops \in Nat /\ MaxLosses \in Nat
    /\ MaxStores \in Nat \ {0}
    /\ MaxSetups \in Nat /\ MaxUnseals \in Nat

NoStore == 0
Stores == 1..MaxStores

VARIABLES
    up,          \* the pods that are Running
    unsealed,    \* the pods that are unsealed
    data,        \* the store on each pod's volume
    join,        \* the store a pod without data has asked to join
    members,     \* the raft members of each store
    leader,      \* the stores that have an active leader
    stores,      \* how many stores have been initialised
    initFile,    \* the key in openbao_init_data.json on the primary server
    vault,       \* the key and root token in Ansible Vault
    configured,  \* the stores that the role has configured
    setup,       \* the role
    unseal,      \* the playbook
    counts,      \* how often pods stopped and lost, programs started
    lost,        \* history: the pods that have lost their volume
    unsaved      \* history: the stores whose init was followed by an abort

raft == <<up, unsealed, data, join, members, leader>>
keys == <<stores, initFile, vault, configured>>
history == <<lost, unsaved>>
vars == <<up, unsealed, data, join, members, leader, stores, initFile, vault,
          configured, setup, unseal, counts, lost, unsaved>>

SetupPcs == {"idle", "await", "status", "init", "save", "stat", "first",
             "join", "followers", "check", "configure", "done", "failed"}
UnsealPcs == {"idle", "list", "classify", "sealed", "pick", "join", "fresh",
              "done", "failed"}
Ended == {"idle", "done", "failed"}

RaftOK ==
    /\ up \subseteq Pods /\ unsealed \subseteq up
    /\ data \in [Pods -> 0..stores] /\ join \in [Pods -> 0..stores]
    /\ \A p \in unsealed : data[p] # NoStore
    /\ \A p \in Pods : join[p] # NoStore => p \in up /\ data[p] = NoStore
    /\ members \in [Stores -> SUBSET Pods]
    /\ leader \subseteq 1..stores

SetupRuns == [pc : SetupPcs, todo : Seq(Pods), out : 0..stores,
              key : 0..stores, token : 0..stores, calm : {"yes", "no"}]

UnsealRuns == [pc : UnsealPcs, listed : SUBSET Pods, todo : Seq(Pods),
               sealed : Seq(Pods), fresh : Seq(Pods), open : Seq(Pods),
               target : Pods, key : 0..stores, calm : {"yes", "no"},
               whole : {"yes", "no"}]

Counts == [stops : 0..MaxStops, losses : 0..MaxLosses,
           setups : 0..MaxSetups, unseals : 0..MaxUnseals]

TypeOK ==
    /\ RaftOK
    /\ stores \in 0..MaxStores
    /\ initFile \in 0..stores /\ vault \in 0..stores
    /\ configured \subseteq 1..stores
    /\ setup \in SetupRuns /\ unseal \in UnsealRuns
    /\ counts \in Counts
    /\ lost \subseteq Pods /\ unsaved \subseteq 1..stores

\* A fresh installation, or one that was recovered from a Raft snapshot and has
\* no init file ("After Raft recovery or manual init, this file won't exist").
Init ==
    /\ up = Pods /\ unsealed = {}
    /\ join = [p \in Pods |-> NoStore]
    /\ leader = {} /\ initFile = NoStore /\ configured = {}
    /\ stores \in {0, 1}
    /\ vault = stores
    /\ data = [p \in Pods |-> stores]
    /\ members = [c \in Stores |-> IF c = stores THEN Pods ELSE {}]
    /\ setup = [pc |-> "idle", todo |-> <<>>, out |-> NoStore, key |-> NoStore,
                token |-> NoStore, calm |-> "yes"]
    /\ unseal = [pc |-> "idle", listed |-> {}, todo |-> <<>>, sealed |-> <<>>,
                 fresh |-> <<>>, open |-> <<>>, target |-> First,
                 key |-> NoStore, calm |-> "yes", whole |-> "no"]
    /\ counts = [stops |-> 0, losses |-> 0, setups |-> 0, unseals |-> 0]
    /\ lost = {} /\ unsaved = {}

-----------------------------------------------------------------------------
\* OpenBao.

HasMajority(c, pods) == 2 * Cardinality(members[c] \cap pods) > Cardinality(members[c])
Holding(c) == {p \in Pods : data[p] = c}

\* A pod stops and forgets what it had in memory; its volume may go with the
\* node.  The programs that run are disturbed.
PodStops(p) ==
    /\ p \in up
    /\ counts.stops < MaxStops
    /\ up' = up \ {p}
    /\ unsealed' = unsealed \ {p}
    /\ join' = [join EXCEPT ![p] = NoStore]
    /\ leader' = {c \in leader : HasMajority(c, Holding(c) \cap unsealed')}
    /\ \/ /\ counts' = [counts EXCEPT !.stops = @ + 1]
          /\ UNCHANGED <<data, lost>>
       \/ /\ counts.losses < MaxLosses
          /\ counts' = [counts EXCEPT !.stops = @ + 1, !.losses = @ + 1]
          /\ data' = [data EXCEPT ![p] = NoStore]
          /\ lost' = lost \cup {p}
    /\ setup' = [setup EXCEPT !.calm = "no"]
    /\ unseal' = [unseal EXCEPT !.calm = "no"]
    /\ UNCHANGED <<members, keys, unsaved>>

PodStarts(p) ==
    /\ p \notin up
    /\ up' = up \cup {p}
    /\ UNCHANGED <<unsealed, data, join, members, leader, keys, setup, unseal,
                   counts, history>>

\* "initialized" in bao status: there is data, or a store to join.
Initialized(p) == data[p] # NoStore \/ join[p] # NoStore

\* p, without data, asks the store of q, which must have a leader to answer.
CanJoin(p, q) ==
    /\ p \in up /\ data[p] = NoStore
    /\ q \in unsealed /\ data[q] \in leader

Join(p, q) ==
    /\ join' = [join EXCEPT ![p] = data[q]]
    /\ UNCHANGED <<up, unsealed, data, members, leader>>

\* The stanzas retry_join: a pod without data tries every pod of the list.
RetryJoin(p) ==
    /\ ~Initialized(p)
    /\ \E q \in Pods : CanJoin(p, q) /\ Join(p, q)
    /\ UNCHANGED <<keys, setup, unseal, counts, history>>

\* The unsealed members elect a leader.
Elect(c) ==
    /\ c \in 1..stores \ leader
    /\ HasMajority(c, Holding(c) \cap unsealed)
    /\ leader' = leader \cup {c}
    /\ UNCHANGED <<up, unsealed, data, join, members, keys, setup, unseal,
                   counts, history>>

\* When bao operator unseal on p ends with 0: p is open already, whatever the
\* key, or the key of store c opens its volume or completes its join.
CanUnseal(p, c) ==
    /\ p \in up /\ c # NoStore
    /\ \/ p \in unsealed
       \/ data[p] = c
       \/ data[p] = NoStore /\ join[p] = c /\ c \in leader

\* A pod that is open already keeps its store.
Unseal(p, c) ==
    \/ p \in unsealed /\ UNCHANGED raft
    \/ /\ p \notin unsealed
       /\ unsealed' = unsealed \cup {p}
       /\ data' = [data EXCEPT ![p] = c]
       /\ join' = [join EXCEPT ![p] = NoStore]
       /\ members' = [members EXCEPT ![c] = @ \cup {p}]
       /\ UNCHANGED <<up, leader>>

\* The operator copies the key and the root token into Ansible Vault.
RecordKeys ==
    /\ initFile \notin {NoStore, vault}
    /\ vault' = initFile
    /\ UNCHANGED <<raft, stores, initFile, configured, setup, unseal, counts,
                   history>>

-----------------------------------------------------------------------------
\* The role openbao_setup.

SetupGoes(pc) == setup' = [setup EXCEPT !.pc = pc]

\* The root token is read from Ansible Vault when the run starts.
StartSetup ==
    /\ setup.pc \in Ended
    /\ counts.setups < MaxSetups
    /\ counts' = [counts EXCEPT !.setups = @ + 1]
    /\ setup' = [pc |-> "await", todo |-> PodList, out |-> NoStore,
                 key |-> NoStore, token |-> vault, calm |-> "yes"]
    /\ UNCHANGED <<raft, keys, unseal, history>>

\* A task fails, its retries are used up, or the run is interrupted; what the
\* run had registered is gone.
SetupFails ==
    /\ setup.pc \notin Ended
    /\ setup' = [setup EXCEPT !.pc = "failed", !.out = NoStore]
    /\ unsaved' = IF setup.pc = "save" THEN unsaved \cup {setup.out} ELSE unsaved
    /\ UNCHANGED <<raft, keys, unseal, counts, lost>>

\* The loop of the current task is at Head(setup.todo); go is the next task.
SetupNext(go, todo) ==
    setup' = IF Tail(setup.todo) = <<>>
             THEN [setup EXCEPT !.pc = go, !.todo = todo]
             ELSE [setup EXCEPT !.todo = Tail(@)]

\* Wait for OpenBao pods to be running.
AwaitPod ==
    /\ setup.pc = "await"
    /\ Head(setup.todo) \in up
    /\ SetupNext("status", <<>>)
    /\ UNCHANGED <<raft, keys, unseal, counts, history>>

\* Check if OpenBao is initialized: openbao-0 answers for all; without an
\* answer the init is skipped.
CheckInitialized ==
    /\ setup.pc = "status"
    /\ SetupGoes(IF First \in up /\ ~Initialized(First) THEN "init" ELSE "stat")
    /\ UNCHANGED <<raft, keys, unseal, counts, history>>

\* bao operator init on pod p, which refuses if it is initialized by now.
Initialize(p) ==
    /\ p \in up /\ ~Initialized(p)
    /\ stores < MaxStores
    /\ stores' = stores + 1
    /\ data' = [data EXCEPT ![p] = stores']
    /\ members' = [members EXCEPT ![stores'] = {p}]
    /\ setup' = [setup EXCEPT !.pc = "save", !.out = stores']
    /\ unseal' = [unseal EXCEPT !.calm = "no"]
    /\ UNCHANGED <<up, unsealed, join, leader, initFile, vault, configured,
                   counts, history>>

\* Slip: the init runs on any pod that is not initialized.
RunInitAnywhere ==
    /\ setup.pc = "init"
    /\ \E p \in Pods : Initialize(p)

\* Run OpenBao init.
RunInit ==
    /\ setup.pc = "init"
    /\ Initialize(First)

\* Slip: the file is not overwritten (force: false).
SaveIfAbsent ==
    /\ setup.pc = "save"
    /\ initFile' = IF initFile = NoStore THEN setup.out ELSE initFile
    /\ setup' = [setup EXCEPT !.pc = "stat", !.out = NoStore]
    /\ UNCHANGED <<raft, stores, vault, configured, unseal, counts, history>>

\* Save initialization data to node.
SaveKeys ==
    /\ setup.pc = "save"
    /\ initFile' = setup.out
    /\ setup' = [setup EXCEPT !.pc = "stat", !.out = NoStore]
    /\ UNCHANGED <<raft, stores, vault, configured, unseal, counts, history>>

\* Check for initialization data, and read it.
ReadKeys ==
    /\ setup.pc = "stat"
    /\ setup' = [setup EXCEPT !.key = initFile,
                              !.pc = IF initFile = NoStore THEN "check" ELSE "first"]
    /\ UNCHANGED <<raft, keys, unseal, counts, history>>

\* Slip: the answer of the unseal is not looked at.
UnsealFirstBlind ==
    /\ setup.pc = "first"
    /\ Unseal(First, setup.key)
    /\ setup' = [setup EXCEPT !.pc = "join", !.todo = Tail(PodList)]
    /\ UNCHANGED <<keys, unseal, counts, history>>

\* Unseal OpenBao leader (openbao-0), until the command ends with 0.
UnsealFirst ==
    /\ setup.pc = "first"
    /\ CanUnseal(First, setup.key)
    /\ Unseal(First, setup.key)
    /\ setup' = [setup EXCEPT !.pc = "join", !.todo = Tail(PodList)]
    /\ UNCHANGED <<keys, unseal, counts, history>>

\* Join OpenBao followers to Raft cluster; a failed join is ignored.
JoinFollower ==
    /\ setup.pc = "join"
    /\ LET p == Head(setup.todo) IN
         \/ CanJoin(p, First) /\ Join(p, First)
         \/ ~CanJoin(p, First) /\ UNCHANGED raft
    /\ SetupNext("followers", Tail(PodList))
    /\ UNCHANGED <<keys, unseal, counts, history>>

\* Slip: a follower that cannot be unsealed is ignored, as a failed join is.
UnsealFollowerOrNot ==
    /\ setup.pc = "followers"
    /\ LET p == Head(setup.todo) IN
         \/ CanUnseal(p, setup.key) /\ Unseal(p, setup.key)
         \/ ~CanUnseal(p, setup.key) /\ UNCHANGED raft
    /\ SetupNext("check", <<>>)
    /\ UNCHANGED <<keys, unseal, counts, history>>

\* Unseal OpenBao followers, until the command ends with 0.
UnsealFollower ==
    /\ setup.pc = "followers"
    /\ LET p == Head(setup.todo) IN
         CanUnseal(p, setup.key) /\ Unseal(p, setup.key)
    /\ SetupNext("check", <<>>)
    /\ UNCHANGED <<keys, unseal, counts, history>>

\* Verify OpenBao is unsealed before configuring: if openbao-0 is sealed, the
\* role ends well without configuring anything; no answer is no JSON.
CheckSeal ==
    /\ setup.pc = "check"
    /\ First \in up
    /\ SetupGoes(IF First \in unsealed THEN "configure" ELSE "done")
    /\ UNCHANGED <<raft, keys, unseal, counts, history>>

\* Configure OpenBao, with the root token from Ansible Vault.
Configure ==
    /\ setup.pc = "configure"
    /\ First \in unsealed
    /\ data[First] = setup.token /\ setup.token \in leader
    /\ configured' = configured \cup {setup.token}
    /\ SetupGoes("done")
    /\ UNCHANGED <<raft, stores, initFile, vault, unseal, counts, history>>

Setup ==
    \/ StartSetup \/ SetupFails \/ AwaitPod \/ CheckInitialized \/ RunInit
    \/ SaveKeys \/ ReadKeys \/ UnsealFirst \/ JoinFollower \/ UnsealFollower
    \/ CheckSeal \/ Configure

-----------------------------------------------------------------------------
\* The playbook openbao-unseal.yml.

\* The key is read from Ansible Vault when the run starts.
StartUnseal ==
    /\ unseal.pc \in Ended
    /\ counts.unseals < MaxUnseals
    /\ counts' = [counts EXCEPT !.unseals = @ + 1]
    /\ unseal' = [pc |-> "list", listed |-> {}, todo |-> <<>>, sealed |-> <<>>,
                  fresh |-> <<>>, open |-> <<>>, target |-> First,
                  key |-> vault, calm |-> "yes", whole |-> "no"]
    /\ UNCHANGED <<raft, keys, setup, history>>

UnsealFails ==
    /\ unseal.pc \notin Ended
    /\ unseal' = [unseal EXCEPT !.pc = "failed"]
    /\ UNCHANGED <<raft, keys, setup, counts, history>>

\* History: there is something to restore.  Every pod runs, no volume is of
\* another store, most members of the store have theirs, and a pod that waits
\* to join waits for a store that has a leader.
Restorable ==
    /\ up = Pods
    /\ unseal.key # NoStore
    /\ \A p \in Pods : data[p] \in {NoStore, unseal.key}
    /\ HasMajority(unseal.key, Holding(unseal.key))
    /\ \A p \in Pods : join[p] \in {NoStore} \cup leader

\* Get OpenBao pod names: of those that are Running now.
ListPods ==
    /\ unseal.pc = "list"
    /\ unseal' = [unseal EXCEPT !.pc = "classify",
                    !.listed = up, !.todo = PodList,
                    !.whole = IF Restorable THEN "yes" ELSE "no"]
    /\ UNCHANGED <<raft, keys, setup, counts, history>>

\* What bao status says of a pod that answers.
Status(p) == IF p \in unsealed THEN "open"
             ELSE IF Initialized(p) THEN "sealed" ELSE "fresh"

\* Check seal status of each listed pod, and classify it; a pod that does not
\* answer is in none of the lists.
Classify ==
    /\ unseal.pc = "classify" /\ unseal.todo # <<>>
    /\ LET p == Head(unseal.todo)
           u == [unseal EXCEPT !.todo = Tail(@)]
       IN unseal' = IF p \in unseal.listed \cap up
                    THEN [u EXCEPT ![Status(p)] = Append(@, p)]
                    ELSE u
    /\ UNCHANGED <<raft, keys, setup, counts, history>>

\* One item of a loop of commands whose failures are ignored: it does what it
\* can; a command that fails although it could work disturbs the run.
Attempt(can, effect, u) ==
    \/ can /\ effect /\ unseal' = u
    \/ can /\ UNCHANGED raft /\ unseal' = [u EXCEPT !.calm = "no"]
    \/ ~can /\ UNCHANGED raft /\ unseal' = u

\* Unseal initialized pods first; and, in the end, unseal newly joined pods.
UnsealPod ==
    /\ unseal.pc \in {"sealed", "fresh"}
    /\ unseal.todo # <<>>
    /\ LET p == Head(unseal.todo) IN
         Attempt(CanUnseal(p, unseal.key), Unseal(p, unseal.key),
                 [unseal EXCEPT !.todo = Tail(@)])
    /\ UNCHANGED <<keys, setup, counts, history>>

\* Slip: openbao-0 is taken for the leader.
PickFirst ==
    /\ unseal.pc = "sealed" /\ unseal.todo = <<>>
    /\ unseal' = [unseal EXCEPT
                    !.pc = "join", !.todo = unseal.fresh, !.target = First,
                    !.calm = IF unseal.fresh = <<>> \/ unseal.key \in leader
                             THEN @ ELSE "no"]
    /\ UNCHANGED <<raft, keys, setup, counts, history>>

\* Wait for leader election, five seconds, and determine Raft leader address.
\* If nobody is elected by then, the run is disturbed.
PickLeader ==
    /\ unseal.pc = "sealed" /\ unseal.todo = <<>>
    /\ LET found == unseal.sealed \o unseal.open IN
         unseal' = [unseal EXCEPT
                      !.pc = "join", !.todo = unseal.fresh,
                      !.target = IF found = <<>> THEN First ELSE Head(found),
                      !.calm = IF unseal.fresh = <<>> \/ unseal.key \in leader
                               THEN @ ELSE "no"]
    /\ UNCHANGED <<raft, keys, setup, counts, history>>

\* Raft join for uninitialized pods.
JoinPod ==
    /\ unseal.pc = "join" /\ unseal.todo # <<>>
    /\ LET p == Head(unseal.todo) IN
         Attempt(CanJoin(p, unseal.target), Join(p, unseal.target),
                 [unseal EXCEPT !.todo = Tail(@)])
    /\ UNCHANGED <<keys, setup, counts, history>>

\* A loop ends; after the last one the playbook does too, and does not judge the
\* final status.
LoopEnds ==
    /\ unseal.todo = <<>>
    /\ \/ /\ unseal.pc = "classify"
          /\ unseal' = [unseal EXCEPT !.pc = "sealed", !.todo = unseal.sealed]
       \/ /\ unseal.pc = "join"
          /\ unseal' = [unseal EXCEPT !.pc = "fresh", !.todo = unseal.fresh]
       \/ /\ unseal.pc = "fresh"
          /\ unseal' = [unseal EXCEPT !.pc = "done"]
    /\ UNCHANGED <<raft, keys, setup, counts, history>>

UnsealPlaybook ==
    \/ StartUnseal \/ UnsealFails \/ ListPods \/ Classify \/ UnsealPod
    \/ PickLeader \/ JoinPod \/ LoopEnds

Next ==
    \/ \E p \in Pods : PodStops(p) \/ PodStarts(p) \/ RetryJoin(p)
    \/ \E c \in Stores : Elect(c)
    \/ RecordKeys \/ Setup \/ UnsealPlaybook

Spec == Init /\ [][Next]_vars

-----------------------------------------------------------------------------
\* Safety.

\* However the role and the playbook run, fail, overlap and are repeated, and
\* whichever followers lose their volumes, OpenBao is initialized once: all pods
\* that have data have the same store.  openbao-0 decides alone, so this holds
\* only as long as it keeps its volume.
OneStore ==
    First \notin lost =>
      \A p, q \in Pods : NoStore \in {data[p], data[q]} \/ data[p] = data[q]

\* The key of the last store is on the primary server, in Ansible Vault or with
\* the run that has just created it; only a run that dies between the init and
\* the next task takes it away for good.
KeyKept ==
    stores \in {NoStore, initFile, vault, setup.out} \cup unsaved

\* A run of the role that was not disturbed and found an init file leaves every
\* pod unsealed and the store of openbao-0 configured.  As long as openbao-0 keeps
\* its volume, they are all in the store whose key is in that file; once it has
\* lost it, a follower that is open in an older store passes the unseal, and stays
\* there.
SetupOpens ==
    setup.pc = "done" /\ setup.calm = "yes" /\ setup.key # NoStore =>
      /\ unsealed = Pods
      /\ data[First] \in configured
      /\ First \notin lost => \A p \in Pods : data[p] = setup.key

\* "This playbook unseals all running pods": if no pod stopped, no command
\* failed by itself and the leader was elected in time, every pod is unsealed in
\* the end, those with a fresh volume and openbao-0 included.
UnsealRestores ==
    unseal.pc = "done" /\ unseal.calm = "yes" /\ unseal.whole = "yes" =>
      unsealed = Pods

-----------------------------------------------------------------------------
\* The inductive invariant.

In(p, s) == \E i \in DOMAIN s : s[i] = p

\* A loop of the role has a pod to work on.
LoopsHavePods == setup.pc \in {"await", "join", "followers"} => setup.todo # <<>>

\* The output of the init is that of the last store, until it is saved.
KeyInHand ==
    /\ setup.pc = "save" => setup.out = stores /\ stores # NoStore
    /\ setup.pc # "save" => setup.out = NoStore

\* The init file is never older than what the operator recorded.
FileFollows == vault = stores => initFile \in {NoStore, vault}

\* Until it loses its volume, openbao-0 has the one store there is.
FirstDecides == First \notin lost => data[First] = stores /\ stores <= 1

\* A leader has the votes of unsealed members that have its store.
Led == \A c \in leader : HasMajority(c, Holding(c) \cap unsealed)

\* What an undisturbed run of the role has achieved, task by task.
Opening ==
    setup.calm = "yes" /\ setup.key # NoStore =>
      /\ setup.pc \in {"join", "followers"} => First \in unsealed
      /\ setup.pc = "followers" => \A p \in Pods : In(p, setup.todo) \/ p \in unsealed
      /\ setup.pc \in {"check", "configure", "done"} => unsealed = Pods
      /\ setup.pc = "done" => data[First] \in configured

\* A run of the playbook starts without results.
ListsStartEmpty ==
    unseal.pc = "list" => unseal.sealed = <<>> /\ unseal.open = <<>>

Classified(p) ==
    In(p, unseal.sealed) \/ In(p, unseal.open) \/ In(p, unseal.fresh)

\* The same for a run of the playbook that found something to restore.
Restoring ==
    unseal.calm = "yes" /\ unseal.whole = "yes" =>
      /\ Restorable
      /\ \A p \in Pods :
           /\ In(p, unseal.sealed) => Initialized(p)
           /\ In(p, unseal.open) => p \in unsealed
      /\ unseal.pc = "classify" =>
           /\ unseal.listed = Pods
           /\ \A p \in Pods : In(p, unseal.todo) \/ Classified(p)
           /\ \E p \in Pods :
                \/ In(p, unseal.sealed) \/ In(p, unseal.open)
                \/ p \in Holding(unseal.key) /\ In(p, unseal.todo)
      /\ unseal.pc \in {"sealed", "join", "fresh", "done"} =>
           /\ \E p \in Pods : In(p, unseal.sealed) \/ In(p, unseal.open)
           /\ \A p \in Pods : Classified(p)
      /\ unseal.pc = "sealed" =>
           \A p \in Pods :
             In(p, unseal.sealed) => In(p, unseal.todo) \/ p \in unsealed
      /\ unseal.pc \in {"join", "fresh", "done"} =>
           \A p \in Pods : In(p, unseal.sealed) => p \in unsealed
      /\ unseal.pc = "join" =>
           /\ unseal.fresh # <<>> => unseal.target \in unsealed /\ unseal.key \in leader
           /\ \A p \in Pods :
                /\ In(p, unseal.todo) => unseal.fresh # <<>>
                /\ In(p, unseal.fresh) => In(p, unseal.todo) \/ Initialized(p)
      /\ unseal.pc = "fresh" =>
           \A p \in Pods :
             In(p, unseal.fresh) =>
               Initialized(p) /\ (In(p, unseal.todo) \/ p \in unsealed)
      /\ unseal.pc = "done" =>
           \A p \in Pods : In(p, unseal.fresh) => p \in unsealed

BaoInv ==
    /\ TypeOK /\ LoopsHavePods /\ KeyInHand /\ FileFollows /\ KeyKept
    /\ FirstDecides /\ Led /\ Opening /\ ListsStartEmpty /\ Restoring
=============================================================================
