---------------------------- MODULE GiteaSetup ----------------------------
(***************************************************************************)
(* ansible/roles/gitea_setup, inside the jobs of the deployment workflow   *)
(* that run docker-node.yml: the database password and the token of a      *)
(* service account, each kept in OpenBao and in a second place, a check    *)
(* and several calls apart.  Jobs of overlapping runs do this side by side.*)
(*                                                                         *)
(* A password or a token is a number; one that is drawn at random is a     *)
(* number nobody holds.  One account stands for the two of                 *)
(* gitea_service_accounts; their passwords, which are seeded in the same   *)
(* way and used once, are left out.                                        *)
(***************************************************************************)
EXTENDS DeployInfra

CONSTANT MaxLosses  \* bound: how often an entry of OpenBao goes

ASSUME LossesAssumption == MaxLosses \in Nat

RunIds == 1..(MaxCommits + MaxDispatches)

None == 0
Secrets == 0..(MaxCommits + MaxDispatches + 3)

VARIABLES
    db,        \* OpenBao: gitea/db, the database password
    token,     \* OpenBao: the account's token
    postgres,  \* the password Postgres has for the user gitea
    gitea,     \* the password the Gitea container has been given
    accepted,  \* the token that Gitea accepts under the account's token name
    task,      \* the role's task in the job of each run, and what it holds
    losses,    \* how often an entry has gone
    crossed    \* history: did two jobs replace the token at the same time?

giteaVars == <<db, token, postgres, gitea, accepted, task, losses, crossed>>

First == [pc |-> "check db", holds |-> None]

Window == {"delete", "generate", "store"}

Pcs == {"check db", "seed db", "fetch db", "postgres", "gitea",
        "check token", "done"} \cup Window

GiteaTypeOK ==
    /\ {db, token, postgres, gitea, accepted} \subseteq Secrets
    /\ task \in [RunIds -> [pc : Pcs, holds : Secrets]]
    /\ \A i \in RunIds : task[i] # First =>
         i \in DOMAIN runs /\ runs[i].docker = "running"
    /\ \A i \in RunIds : task[i].holds # None =>
         task[i].pc \in {"postgres", "gitea", "store"}
    /\ losses \in 0..MaxLosses
    /\ crossed \in BOOLEAN

\* A Docker node without Gitea, and an OpenBao without its entries.
GiteaInit ==
    /\ Init
    /\ db = None /\ token = None /\ postgres = None /\ gitea = None
    /\ accepted = None
    /\ task = [i \in RunIds |-> First]
    /\ losses = 0
    /\ crossed = FALSE

-----------------------------------------------------------------------------

Held == {task[i].holds : i \in RunIds}
Drawn(used) == CHOOSE n \in Secrets \ {None} : n \notin used

At(i, pc) == runs[i].docker = "running" /\ task[i].pc = pc
Goto(i, pc, holds) == task' = [task EXCEPT ![i] = [pc |-> pc, holds |-> holds]]

\* openbao_seed.yml: draw the password if there is none.
CheckDb(i) ==
    /\ At(i, "check db")
    /\ Goto(i, IF db = None THEN "seed db" ELSE "fetch db", None)
    /\ UNCHANGED <<vars, db, token, postgres, gitea, accepted, losses, crossed>>

SeedDb(i) ==
    /\ At(i, "seed db")
    /\ db' = Drawn({db, postgres, gitea} \cup Held)
    /\ Goto(i, "fetch db", None)
    /\ UNCHANGED <<vars, token, postgres, gitea, accepted, losses, crossed>>

\* Slip: the fact is the expression that drew the password, which draws again.
FetchDbLazily(i) ==
    /\ At(i, "fetch db")
    /\ db # None
    /\ Goto(i, "postgres", Drawn({db, postgres, gitea} \cup Held))
    /\ UNCHANGED <<vars, db, token, postgres, gitea, accepted, losses, crossed>>

\* openbao_fetch.yml: the password is what OpenBao has by now.
FetchDb(i) ==
    /\ At(i, "fetch db")
    /\ db # None
    /\ Goto(i, "postgres", db)
    /\ UNCHANGED <<vars, db, token, postgres, gitea, accepted, losses, crossed>>

\* The container, and ALTER USER, which also reaches an existing database.
DeployPostgres(i) ==
    /\ At(i, "postgres")
    /\ postgres' = task[i].holds
    /\ Goto(i, "gitea", task[i].holds)
    /\ UNCHANGED <<vars, db, token, gitea, accepted, losses, crossed>>

DeployGitea(i) ==
    /\ At(i, "gitea")
    /\ gitea' = task[i].holds
    /\ Goto(i, "check token", None)
    /\ UNCHANGED <<vars, db, token, postgres, accepted, losses, crossed>>

\* Gitea and its command line work if Postgres lets them in.
Answers == gitea = postgres

\* rotate_token.yml.  Slip: any answer but 200 means that there is no token.
CheckTokenAny(i) ==
    /\ At(i, "check token")
    /\ Answers
    /\ \/ token # None /\ Goto(i, "done", None)
       \/ Goto(i, "delete", None)
    /\ UNCHANGED <<vars, db, token, postgres, gitea, accepted, losses, crossed>>

\* The wait for Gitea and the tasks that use it, and rotate_token.yml: 200 and
\* 404 are told apart, anything else ends the job.
CheckToken(i) ==
    /\ At(i, "check token")
    /\ Answers
    /\ Goto(i, IF token = None THEN "delete" ELSE "done", None)
    /\ crossed' = (crossed \/ (/\ token = None
                               /\ \E k \in RunIds \ {i} : task[k].pc \in Window))
    /\ UNCHANGED <<vars, db, token, postgres, gitea, accepted, losses>>

DeleteToken(i) ==
    /\ At(i, "delete")
    /\ Answers
    /\ accepted' = None
    /\ Goto(i, "generate", None)
    /\ UNCHANGED <<vars, db, token, postgres, gitea, losses, crossed>>

\* Gitea refuses a second token of the same name.
GenerateToken(i) ==
    /\ At(i, "generate")
    /\ Answers /\ accepted = None
    /\ accepted' = Drawn({token, accepted} \cup Held)
    /\ Goto(i, "store", accepted')
    /\ UNCHANGED <<vars, db, token, postgres, gitea, losses, crossed>>

StoreToken(i) ==
    /\ At(i, "store")
    /\ token' = task[i].holds
    /\ Goto(i, "done", None)
    /\ UNCHANGED <<vars, db, postgres, gitea, accepted, losses, crossed>>

Role(i) ==
    \/ CheckDb(i) \/ SeedDb(i) \/ FetchDb(i) \/ DeployPostgres(i)
    \/ DeployGitea(i) \/ CheckToken(i) \/ DeleteToken(i)
    \/ GenerateToken(i) \/ StoreToken(i)

-----------------------------------------------------------------------------
\* Slip: what the job had registered is still there for the next one.
EndTaskKeeps(i) == UNCHANGED giteaVars

\* The job ends; what it had registered is gone.  A call whose answer gets lost
\* is one that was made, in a job that then fails.
EndTask(i) ==
    /\ task' = [task EXCEPT ![i] = First]
    /\ UNCHANGED <<db, token, postgres, gitea, accepted, losses, crossed>>

DockerSucceeds(i) == At(i, "done") /\ JobSucceeds(i, "docker") /\ EndTask(i)
DockerFails(i) == JobFails(i, "docker") /\ EndTask(i)

\* The operator deletes the token's entry to have it rotated, or OpenBao is set
\* up anew and has no entry.
EntryGoes ==
    /\ losses < MaxLosses
    /\ losses' = losses + 1
    /\ token' = None
    /\ db' \in {db, None}
    /\ UNCHANGED <<vars, postgres, gitea, accepted, task, crossed>>

Workflow ==
    /\ \/ Push \/ Dispatch
       \/ \E i \in DOMAIN runs :
            \/ Detect(i) \/ DetectFails(i) \/ StartSite(i) \/ StartDocker(i)
            \/ JobSucceeds(i, "site") \/ JobFails(i, "site")
    /\ UNCHANGED giteaVars

GiteaNext ==
    \/ Workflow \/ EntryGoes
    \/ \E i \in DOMAIN runs : Role(i) \/ DockerSucceeds(i) \/ DockerFails(i)

GiteaSpec == GiteaInit /\ [][GiteaNext]_<<vars, giteaVars>>

-----------------------------------------------------------------------------
\* Properties.

\* "Idempotent token management": the token in OpenBao is the one Gitea accepts,
\* whichever jobs fail between two calls and whichever entries go, unless two
\* jobs were replacing the token at the same time.
StoredTokenAccepted == token \in {None, accepted} \/ crossed

DbKept(password) ==
    password # None /\ (db = password \/ (db = None /\ losses > 0))

TokenKept ==
    \/ token = accepted /\ token # None
    \/ token = None /\ losses > 0
    \/ crossed

\* A job that succeeds, with no run beside it, leaves Gitea at work with the
\* password that OpenBao has, and an accepted token in OpenBao, whatever the
\* jobs before it have left; unless an entry has gone, or the token had been
\* left dead by two jobs.
SuccessSettles ==
    LET last == runs[Len(runs)] IN
    runs # <<>> /\ last.docker = "ok" /\ last.beside = "nobody" =>
      Answers /\ DbKept(gitea) /\ TokenKept

-----------------------------------------------------------------------------
\* The inductive invariants behind the two.

\* As long as no two jobs have replaced the token at the same time, a job that is
\* replacing it is alone in doing so, OpenBao has no token meanwhile, and what it
\* is about to store is accepted.
InWindow == {i \in RunIds : task[i].pc \in Window}

TokenInv ==
    ~crossed =>
      /\ token \in {None, accepted}
      /\ \A i, k \in InWindow : i = k
      /\ InWindow # {} => token = None
      /\ \A i \in InWindow : task[i].pc = "store" => task[i].holds = accepted

\* The last run, with nobody beside it, finds at each task what the tasks before
\* it have settled.
LastRunInv ==
    LET i == Len(runs) IN
    runs # <<>> /\ runs[i].beside = "nobody" =>
      /\ At(i, "postgres") => DbKept(task[i].holds)
      /\ At(i, "gitea") => DbKept(task[i].holds) /\ postgres = task[i].holds
      /\ (\E pc \in {"check token", "done"} \cup Window : At(i, pc)) =>
           DbKept(gitea) /\ Answers
      /\ At(i, "store") => task[i].holds # None
      /\ At(i, "done") => TokenKept
      /\ runs[i].docker = "ok" => DbKept(gitea) /\ Answers /\ TokenKept
=============================================================================
