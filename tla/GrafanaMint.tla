---------------------------- MODULE GrafanaMint ----------------------------
(***************************************************************************)
(* The mint script of the Grafana service-account tokens, run by           *)
(* Kubernetes Jobs:                                                        *)
(*   k8s/platform/observability/templates/grafana-sa-mint-script-cm.yaml   *)
(*   k8s/platform/observability/templates/                                 *)
(*                              grafana-sa-mint-claude-desktop-job.yaml    *)
(*                                                                         *)
(* The token lives in two stores that the script updates one after the     *)
(* other: Grafana (which tokens of the service account it accepts) and the *)
(* OpenBao KV path (the token the consumer reads).  A Job may fail, be     *)
(* retried by Kubernetes, be killed by the next ArgoCD sync, or run beside *)
(* another Job.  One curl call of the script is one action.                *)
(*                                                                         *)
(* Tokens are numbered in the order Grafana issues them; 0 is no token.    *)
(***************************************************************************)
EXTENDS Naturals, FiniteSets

CONSTANTS
    RotateJobs,    \* Jobs an operator creates from the hook with ROTATE=true
    Hook,          \* the PostSync hook Job, re-created by every ArgoCD sync
    BackoffLimit,  \* retries Kubernetes gives a Job
    MaxSyncs,      \* bound: how often ArgoCD syncs
    MaxKvDeletes,  \* bound: how often the operator deletes the KV path
    ReadMayFail,   \* may the existence check of step 3 get no answer?
    ListMayFail    \* may the token listing of step 5 get no answer?

Jobs == RotateJobs \cup {Hook}

ASSUME MintAssumption ==
    /\ Hook \notin RotateJobs
    /\ BackoffLimit \in Nat
    /\ MaxSyncs \in Nat
    /\ MaxKvDeletes \in Nat
    /\ ReadMayFail \in BOOLEAN
    /\ ListMayFail \in BOOLEAN

NoToken == 0

VARIABLES
    kv,         \* the token stored at $KV_PATH
    live,       \* the tokens of the service account that Grafana accepts
    account,    \* the service account in Grafana: absent or created
    issued,     \* how many tokens Grafana has issued
    pc,         \* where each Job's script is
    ids,        \* the tokens a Job has listed and not yet deleted ($TID)
    tok,        \* the token a Job has minted ($TOKEN)
    retries,    \* failed attempts of each Job
    syncs,      \* ArgoCD syncs so far
    kvDeletes,  \* KV deletions so far
    disturbed,  \* history: the Jobs that shared their window with another one
    broken,     \* history: the Jobs that left their window without a clean
                \* store, since the last clean store
    unlisted    \* history: the Jobs that went on without their listing, since
                \* the last store

vars == <<kv, live, account, issued, pc, ids, tok, retries, syncs,
          kvDeletes, disturbed, broken, unlisted>>

\* Between the listing of the old tokens and the store of the new one the two
\* stores disagree.
WindowPc == {"delete", "mint", "store"}
InWindow == {j \in Jobs : pc[j] \in WindowPc}

\* Nobody is rotating, and whoever did so last was alone and got to the end.
Settled == InWindow = {} /\ broken = {}

Pcs == {"idle", "login", "check", "find", "create", "list", "done", "failed"}
       \cup WindowPc

TypeOK ==
    /\ kv \in Nat
    /\ live \in SUBSET (Nat \ {NoToken})
    /\ account \in {"absent", "created"}
    /\ issued \in Nat
    /\ pc \in [Jobs -> Pcs]
    /\ ids \in [Jobs -> SUBSET (Nat \ {NoToken})]
    /\ tok \in [Jobs -> Nat]
    /\ retries \in [Jobs -> 0..BackoffLimit]
    /\ syncs \in 0..MaxSyncs
    /\ kvDeletes \in 0..MaxKvDeletes
    /\ disturbed \in SUBSET Jobs
    /\ broken \in SUBSET Jobs
    /\ unlisted \in SUBSET Jobs

Init ==
    /\ kv = NoToken
    /\ live = {}
    /\ account = "absent"
    /\ issued = 0
    /\ pc = [j \in Jobs |-> "idle"]
    /\ ids = [j \in Jobs |-> {}]
    /\ tok = [j \in Jobs |-> NoToken]
    /\ retries = [j \in Jobs |-> 0]
    /\ syncs = 0
    /\ kvDeletes = 0
    /\ disturbed = {}
    /\ broken = {}
    /\ unlisted = {}

-----------------------------------------------------------------------------
\* The Job controller.

Goto(j, where) == pc' = [pc EXCEPT ![j] = where]

\* The script's process ends and its shell variables with it.
Forget(j) ==
    /\ ids' = [ids EXCEPT ![j] = {}]
    /\ tok' = [tok EXCEPT ![j] = NoToken]
    /\ disturbed' = disturbed \ {j}

\* ArgoCD syncs the application: the hook Job of the previous sync is deleted,
\* wherever its script is (hook-delete-policy: BeforeHookCreation), and a new
\* one starts.
Sync ==
    /\ syncs < MaxSyncs
    /\ syncs' = syncs + 1
    /\ Goto(Hook, "login")
    /\ retries' = [retries EXCEPT ![Hook] = 0]
    /\ Forget(Hook)
    /\ broken' = broken \cup ({Hook} \cap InWindow)
    /\ UNCHANGED <<kv, live, account, issued, unlisted, kvDeletes>>

\* The operator creates a rotation Job.
Rotate(j) ==
    /\ j \in RotateJobs
    /\ pc[j] = "idle"
    /\ pc' = [pc EXCEPT ![j] = "login"]
    /\ UNCHANGED <<kv, live, account, issued, unlisted, ids, tok, retries, syncs,
                   kvDeletes, disturbed, broken>>

\* The operator deletes the stored entry, so that the next run mints again.
DeleteKv ==
    /\ kvDeletes < MaxKvDeletes
    /\ kvDeletes' = kvDeletes + 1
    /\ kv' = NoToken
    /\ UNCHANGED <<live, account, issued, unlisted, pc, ids, tok, retries, syncs,
                   disturbed, broken>>

\* Slips: the restart policy without a backoffLimit; one that does not count.
Exit1NoLimit(j) ==
    /\ Goto(j, "login")
    /\ retries' = [retries EXCEPT ![j] = @ + 1]
    /\ Forget(j)
    /\ UNCHANGED <<account, syncs, kvDeletes, broken>>

Exit1Uncounted(j) ==
    /\ Goto(j, "login")
    /\ Forget(j)
    /\ broken' = broken \cup ({j} \cap InWindow)
    /\ UNCHANGED <<account, syncs, kvDeletes, retries>>

\* The script of j exits non-zero; Kubernetes starts it from the top until the
\* Job's backoffLimit is used up.
Exit1(j) ==
    /\ \/ /\ retries[j] < BackoffLimit
          /\ Goto(j, "login")
          /\ retries' = [retries EXCEPT ![j] = @ + 1]
       \/ /\ retries[j] = BackoffLimit
          /\ Goto(j, "failed")
          /\ UNCHANGED retries
    /\ Forget(j)
    /\ broken' = broken \cup ({j} \cap InWindow)
    /\ UNCHANGED <<account, syncs, kvDeletes>>

\* A call fails before it changes anything, or the pod dies between two calls.
Fail(j) ==
    /\ pc[j] \notin {"idle", "done", "failed"}
    /\ Exit1(j)
    /\ UNCHANGED <<kv, live, issued, unlisted>>

-----------------------------------------------------------------------------
\* The script, step by step.

\* 1, 2. Authenticate to OpenBao and read the Grafana admin credentials.
Login(j) ==
    /\ pc[j] = "login"
    /\ Goto(j, "check")
    /\ UNCHANGED <<kv, live, account, issued, unlisted, ids, tok, retries, syncs,
                   kvDeletes, disturbed, broken>>

\* Slip: the answer of the KV path is not looked at.
CheckNothing(j) ==
    /\ pc[j] = "check"
    /\ Goto(j, "find")
    /\ UNCHANGED <<kv, live, account, issued, unlisted, ids, tok, retries, syncs,
                   kvDeletes, disturbed, broken>>

\* 3. Skip if the KV path has a token.  A read that gets no answer leaves $EXIST
\* empty ("|| true"), exactly as an absent token does.
CheckExisting(j) ==
    /\ pc[j] = "check"
    /\ \/ j \in RotateJobs /\ Goto(j, "find")
       \/ j = Hook /\ kv # NoToken /\ Goto(j, "done")
       \/ j = Hook /\ (kv = NoToken \/ ReadMayFail) /\ Goto(j, "find")
    /\ UNCHANGED <<kv, live, account, issued, unlisted, ids, tok, retries, syncs,
                   kvDeletes, disturbed, broken>>

\* 4. Find the service account.
FindAccount(j) ==
    /\ pc[j] = "find"
    /\ Goto(j, IF account = "created" THEN "list" ELSE "create")
    /\ UNCHANGED <<kv, live, account, issued, unlisted, ids, tok, retries, syncs,
                   kvDeletes, disturbed, broken>>

\* 4. Create it; Grafana refuses a second account of the same name, which
\* leaves $SA_ID empty.
CreateAccount(j) ==
    /\ pc[j] = "create"
    /\ \/ /\ account = "absent"
          /\ account' = "created"
          /\ Goto(j, "list")
          /\ UNCHANGED <<retries, broken, ids, tok, disturbed, syncs, kvDeletes>>
       \/ account = "created" /\ Exit1(j)
    /\ UNCHANGED <<kv, live, issued, unlisted>>

\* 5. List the account's tokens: j enters its window.  A listing that gets no
\* answer is an empty list: the pipeline's status is that of its last command.
ListTokens(j) ==
    /\ pc[j] = "list"
    /\ \/ /\ ids' = [ids EXCEPT ![j] = live]
          /\ unlisted' = unlisted \ {j}
       \/ /\ ListMayFail
          /\ ids' = [ids EXCEPT ![j] = {}]
          /\ unlisted' = unlisted \cup {j}
    /\ Goto(j, "delete")
    /\ disturbed' = IF InWindow = {} THEN disturbed
                    ELSE disturbed \cup InWindow \cup {j}
    /\ UNCHANGED <<kv, live, account, issued, tok, retries, syncs, kvDeletes,
                   broken>>

\* 5. Delete the next listed token; deleting one that is gone fails.
DeleteToken(j) ==
    /\ pc[j] = "delete"
    /\ \E t \in ids[j] :
         \/ /\ t \in live
            /\ live' = live \ {t}
            /\ ids' = [ids EXCEPT ![j] = @ \ {t}]
            /\ UNCHANGED <<pc, retries, broken, account, tok, disturbed, syncs,
                           kvDeletes>>
         \/ /\ t \notin live
            /\ Exit1(j)
            /\ UNCHANGED live
    /\ UNCHANGED <<kv, issued, unlisted>>

\* Slip: only the first of the listed tokens is deleted.
DeletedFirst(j) ==
    /\ pc[j] = "delete"
    /\ Goto(j, "mint")
    /\ UNCHANGED <<kv, live, account, issued, unlisted, ids, tok, retries, syncs,
                   kvDeletes, disturbed, broken>>

\* 5. All listed tokens are deleted.
DeletedAll(j) ==
    /\ pc[j] = "delete"
    /\ ids[j] = {}
    /\ Goto(j, "mint")
    /\ UNCHANGED <<kv, live, account, issued, unlisted, ids, tok, retries, syncs,
                   kvDeletes, disturbed, broken>>

\* 6. Grafana issues a token; its answer may get lost.
MintToken(j) ==
    /\ pc[j] = "mint"
    /\ issued' = issued + 1
    /\ live' = live \cup {issued + 1}
    /\ \/ /\ tok' = [tok EXCEPT ![j] = issued + 1]
          /\ Goto(j, "store")
          /\ UNCHANGED <<retries, broken, account, ids, disturbed, syncs,
                         kvDeletes>>
       \/ Exit1(j)
    /\ UNCHANGED <<kv, unlisted>>

\* Slip: the store creates the entry and leaves an existing one alone.
StoreIfAbsent(j) ==
    /\ pc[j] = "store"
    /\ kv' = IF kv = NoToken THEN tok[j] ELSE kv
    /\ Goto(j, "done")
    /\ Forget(j)
    /\ broken' = {j} \cap disturbed
    /\ unlisted' = unlisted \cap {j}
    /\ UNCHANGED <<live, issued, retries, account, syncs, kvDeletes>>

\* 7. Store the token; the answer may get lost.  A store by a Job that was
\* alone in its window is clean.
StoreToken(j) ==
    /\ pc[j] = "store"
    /\ kv' = tok[j]
    /\ \/ /\ Goto(j, "done")
          /\ Forget(j)
          /\ broken' = {j} \cap disturbed
          /\ UNCHANGED <<retries, account, syncs, kvDeletes>>
       \/ Exit1(j)
    /\ unlisted' = unlisted \cap {j}
    /\ UNCHANGED <<live, issued>>

Script(j) ==
    \/ Login(j) \/ CheckExisting(j) \/ FindAccount(j) \/ CreateAccount(j)
    \/ ListTokens(j) \/ DeleteToken(j) \/ DeletedAll(j)
    \/ MintToken(j) \/ StoreToken(j)

Next ==
    \/ Sync
    \/ DeleteKv
    \/ \E j \in Jobs : Rotate(j) \/ Fail(j) \/ Script(j)

Spec == Init /\ [][Next]_vars

\* The kubelet runs a started container and Kubernetes retries a failed one;
\* nobody is obliged to sync, rotate or delete.
FairSpec == Spec /\ \A j \in Jobs : WF_vars(Fail(j) \/ Script(j))

-----------------------------------------------------------------------------
\* Safety.

\* Whenever no Job is between its listing and its store, the stored token is
\* one Grafana accepts, unless a Job died in that window or two Jobs shared it
\* since the last clean store: nothing else the script does, in any order of
\* retries, kills, syncs and lost answers, can make the stored token dead.
DeadTokenExplained ==
    Settled => kv \in live \cup {NoToken}

\* "Delete any existing tokens on this SA": once a Job that had the account to
\* itself has stored its token, no older token of the account is accepted,
\* unless that Job got no answer when it listed them.
OneLiveToken ==
    Settled /\ unlisted = {} => \A s, t \in live : s = t

\* "Idempotent: skips if a token already exists": where no rotation was asked
\* for, syncs and retries never take a stored token away from its consumer.
SyncKeepsStoredToken == kv # NoToken => kv \in live

\* Why DeadTokenExplained holds: a Job that nobody disturbed is alone between
\* its listing and its store, and the token it is about to store is accepted.
AloneInWindow ==
    \A j \in InWindow \ disturbed : InWindow = {j}

MintedTokenLive ==
    \A j \in Jobs \ disturbed : pc[j] = "store" => tok[j] \in live

\* Why OneLiveToken holds: what an undisturbed Job that has its listing has yet
\* to delete, or has minted, is all that Grafana accepts.
DeletesTheRest ==
    \A j \in Jobs \ (disturbed \cup unlisted) :
        /\ pc[j] = "delete" => live \subseteq ids[j]
        /\ pc[j] = "mint" => live = {}
        /\ pc[j] = "store" => live = {tok[j]}

IInv ==
    /\ AloneInWindow
    /\ MintedTokenLive
    /\ DeadTokenExplained

\* With IInv the two together are inductive for OneLiveToken.
RevokeInv ==
    /\ DeletesTheRest
    /\ OneLiveToken

-----------------------------------------------------------------------------
\* Liveness.

\* A rotation Job that was started succeeds or gives up: two Jobs cannot keep
\* each other busy by deleting each other's tokens.
JobEnds ==
    \A j \in RotateJobs : pc[j] = "login" ~> pc[j] \in {"done", "failed"}

\* How far the script is from its end, the number of calls aside.
StagesLeft == [stage \in Pcs \ {"idle"} |->
    CASE stage = "login" -> 8
      [] stage = "check" -> 7
      [] stage = "find" -> 6
      [] stage = "create" -> 5
      [] stage = "list" -> 4
      [] stage = "delete" -> 3
      [] stage = "mint" -> 2
      [] stage = "store" -> 1
      [] stage \in {"done", "failed"} -> 0]

\* A step of j uses up one of its retries, or ends a stage of the script, or
\* ends one of the deletions that its own listing gave it.
Closer(j) ==
    \/ retries'[j] = retries[j] + 1 /\ retries'[j] <= BackoffLimit
    \/ /\ retries'[j] = retries[j]
       /\ \/ StagesLeft[pc'[j]] < StagesLeft[pc[j]]
          \/ pc'[j] = pc[j] /\ Cardinality(ids'[j]) < Cardinality(ids[j])

\* What bounds a Job, whatever the others and the operator do to the stores:
\* only its own steps move it, each of them forward, and a Job that has ended
\* stays as it is; only a sync sets the hook back.
JobAdvances ==
    [][ \A j \in Jobs :
          \/ pc[j] = "idle"
          \/ j = Hook /\ Sync
          \/ IF Fail(j) \/ Script(j) THEN Closer(j)
             ELSE UNCHANGED <<pc[j], ids[j], retries[j]>> ]_vars

=============================================================================
