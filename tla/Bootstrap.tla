----------------------------- MODULE Bootstrap -----------------------------
(***************************************************************************)
(* ansible/playbooks/bootstrap.yml beside the rolling restart: it installs *)
(* or upgrades k3s group by group, gives the servers their snapshot        *)
(* configuration one at a time, and gives every node its registries.yaml.  *)
(* The workflow deploy-infra runs it, the operator runs the rolling        *)
(* restart, and nothing keeps the two apart.                               *)
(*                                                                         *)
(* k3s reads its files when it starts.  config.yaml is written without a   *)
(* restart; the two other files notify a handler, which Ansible runs at    *)
(* the end of the play, on the hosts whose task changed the file and that  *)
(* have not failed since.                                                  *)
(***************************************************************************)
EXTENDS RollingRestart, Sequences

CONSTANTS
    Groups,         \* the hosts of the install plays, in their order
    MaxPlaybooks    \* bound: runs of the two playbooks together

Plays == 1..Len(Groups)

ASSUME BootstrapAssumption ==
    /\ Groups \in Seq((SUBSET Nodes) \ {{}})
    /\ \A n \in Nodes : \E i \in Plays : n \in Groups[i]
    /\ \A i, j \in Plays : i # j => Groups[i] \cap Groups[j] = {}
    /\ \A m, n \in Nodes : Order[m] = Order[n] => m = n
    /\ MaxPlaybooks \in Nat

VARIABLES
    bpc,         \* the task bootstrap.yml is at
    bplay,       \* the install play it is in
    bhosts,      \* the hosts its current task restarts, or has still to take
    bfailed,     \* the hosts that failed in this run
    boutcome,    \* how its last run ended
    bootstraps,  \* its runs so far
    old,         \* the nodes whose k3s binary has to be upgraded
    written,     \* <<file, node>>: the new file is on the node's disk
    read,        \* <<file, node>>: the node's k3s process has read it
    dropped      \* <<file, node>>: the restart it needed will not come

bootVars == <<bpc, bplay, bhosts, bfailed, boutcome, bootstraps, old, written,
              read, dropped>>
allVars == <<vars, bootVars>>

Files == {"snapshots", "registries"}

\* The nodes a file is for.
Holders(f) == IF f = "snapshots" THEN Servers ELSE Nodes

BootPcs == {"idle", "config", "install", "installed", "finalize", "snapshots",
            "snapshots handler", "snapshots restarted", "registries",
            "registries handler", "registries restarted"}

BootTypeOK ==
    /\ bpc \in BootPcs
    /\ bplay \in Plays
    /\ bhosts \in SUBSET Nodes
    /\ bfailed \in SUBSET Nodes
    /\ boutcome \in {"none", "ok", "failed"}
    /\ bootstraps \in 0..MaxPlaybooks
    /\ old \in SUBSET Nodes
    /\ written \in SUBSET (Files \X Nodes)
    /\ read \in SUBSET written
    /\ dropped \in SUBSET (written \ read)

BootInit ==
    /\ Init
    /\ bpc = "idle"
    /\ bplay = 1
    /\ bhosts = {}
    /\ bfailed = {}
    /\ boutcome = "none"
    /\ bootstraps = 0
    /\ old \in {{}, Nodes}
    /\ written = {}
    /\ read = {}
    /\ dropped = {}

-----------------------------------------------------------------------------
\* The run as a whole.

StartBootstrap ==
    /\ bpc = "idle"
    /\ runs + bootstraps < MaxPlaybooks
    /\ bootstraps' = bootstraps + 1
    /\ bpc' = "config"
    /\ bplay' = 1
    /\ bhosts' = {}
    /\ bfailed' = {}
    /\ boutcome' = "none"
    /\ UNCHANGED <<vars, old, written, read, dropped>>

EndBootstrap(result) == bpc' = "idle" /\ boutcome' = result /\ bhosts' = {}

BootGoto(where, hosts) ==
    bpc' = where /\ bhosts' = hosts /\ UNCHANGED boutcome

\* Hosts that fail are left out of what follows; the run ends when all of the
\* hosts of a play have.
FailOrGo(hosts, bad, go) ==
    /\ bfailed' = bfailed \cup bad
    /\ IF hosts \subseteq bfailed \cup bad THEN EndBootstrap("failed") ELSE go

\* k3s is restarted on S.
RestartAll(S) ==
    /\ up' = up \ S
    /\ ready' = IF StaleReady THEN ready ELSE ready \ S
    /\ loaded' = loaded \ S
    /\ read' = {p \in read : p[2] \notin S}

restUnchanged == UNCHANGED <<cordoned, crashes, pc, limit, opts, left, host,
                             tries, failed, outcome, runs, bootstraps>>

-----------------------------------------------------------------------------
\* The install plays.

\* The roles up to k3s_config.  A host may fail before or after config.yaml.
BootConfigure ==
    /\ bpc = "config"
    /\ \E bad \in SUBSET Groups[bplay] : \E wrote \in SUBSET bad :
         /\ bad # {} => ConfigMayFail
         /\ disk' = disk \cup (Groups[bplay] \ bad) \cup wrote
         /\ FailOrGo(Groups[bplay], bad, BootGoto("install", {}))
    /\ restUnchanged
    /\ UNCHANGED <<up, ready, loaded, bplay, old, written, read, dropped>>

NextPlay == IF bplay < Len(Groups)
            THEN bplay' = bplay + 1 /\ BootGoto("config", {})
            ELSE UNCHANGED bplay /\ BootGoto("finalize", {})

\* k3s_install: no change where the version matches, else the installer puts the
\* new binary in place and restarts k3s.  A host may fail (bad); and install.sh
\* pipes curl into sh without pipefail: a download that fails leaves the old binary
\* running (kept) and the task as successful as the others.
BootInstall ==
    /\ bpc = "install"
    /\ LET due == (Groups[bplay] \ bfailed) \cap old IN
       \E bad \in SUBSET due : \E kept \in SUBSET (due \ bad) :
         LET new == due \ (bad \cup kept) IN
         /\ bad \cup kept # {} => ConfigMayFail
         /\ old' = old \ new
         /\ RestartAll(new)
         /\ FailOrGo(Groups[bplay], bad, BootGoto("installed", new))
    /\ restUnchanged
    /\ UNCHANGED <<bplay, disk, written, dropped>>

\* Slip: the play goes on without waiting for the server (INSTALL_K3S_SKIP_START
\* with a start in the background).
BootInstalledAtOnce ==
    /\ bpc = "installed"
    /\ NextPlay
    /\ restUnchanged
    /\ UNCHANGED <<up, ready, loaded, bfailed, disk, old, written, read,
                   dropped>>

\* The installer returns from a server it has restarted when the server is up, from
\* an agent at once, and from a host whose download failed at once.  Nobody asks for
\* the version afterwards.
BootInstalled ==
    /\ bpc = "installed"
    /\ LET bad == (bhosts \cap Servers) \ up IN
         /\ bfailed' = bfailed \cup bad
         /\ IF Groups[bplay] \subseteq bfailed \cup bad
            THEN EndBootstrap("failed") /\ UNCHANGED bplay
            ELSE NextPlay
    /\ restUnchanged
    /\ UNCHANGED <<up, ready, loaded, disk, old, written, read, dropped>>

\* The roles of the primary wait for the API and then set up Argo CD and
\* OpenBao; the next play is over the servers.
Finalize ==
    /\ bpc = "finalize"
    /\ \/ ApiUp /\ BootGoto("snapshots", Servers \ bfailed)
               /\ UNCHANGED bfailed
       \/ EndBootstrap("failed") /\ bfailed' = bfailed \cup {Primary}
    /\ restUnchanged
    /\ UNCHANGED <<up, ready, loaded, bplay, disk, old, written, read,
                   dropped>>

-----------------------------------------------------------------------------
\* A file and its handler, on some hosts.

\* Slip: the template carries the time, and changes whenever it is written.
WriteFileAlways(f, hosts, where, next) ==
    \E bad \in SUBSET hosts : \E wrote \in SUBSET bad :
      LET changed == {<<f, n>> : n \in (hosts \ bad) \cup wrote}
          notified == hosts \ bad
      IN /\ bad # {} => ConfigMayFail
         /\ written' = written \cup changed
         /\ dropped' = dropped \cup {p \in changed : p[2] \in wrote}
         /\ FailOrGo(hosts, bad, IF notified = {} THEN next
                                 ELSE BootGoto(where, notified))

\* The template is written where it changes, and notifies there.  Of the hosts
\* that fail, some have written the file: their notification is lost.
WriteFile(f, hosts, where, next) ==
    \E bad \in SUBSET hosts : \E wrote \in SUBSET bad :
      LET changed == {<<f, n>> : n \in (hosts \ bad) \cup wrote} \ written
          notified == {n \in hosts \ bad : <<f, n>> \in changed}
      IN /\ bad # {} => ConfigMayFail
         /\ written' = written \cup changed
         /\ dropped' = dropped \cup {p \in changed : p[2] \in wrote}
         /\ FailOrGo(hosts, bad, IF notified = {} THEN next
                                 ELSE BootGoto(where, notified))

\* Slip: the handler restarts the service k3s, which no agent has.
RunHandlerOnServers(f, where) ==
    /\ \E bad \in SUBSET bhosts :
         /\ bad # {} => ConfigMayFail
         /\ dropped' = dropped \cup ({<<f, n>> : n \in bad} \ read)
         /\ RestartAll((bhosts \ bad) \cap Servers)
         /\ bfailed' = bfailed \cup bad
         /\ BootGoto(where, bhosts \ bad)

\* The handler restarts the notified hosts, all at once; one that cannot be
\* reached any more is not restarted.
RunHandler(f, where) ==
    /\ \E bad \in SUBSET bhosts :
         /\ bad # {} => ConfigMayFail
         /\ dropped' = dropped \cup ({<<f, n>> : n \in bad} \ read)
         /\ RestartAll(bhosts \ bad)
         /\ bfailed' = bfailed \cup bad
         /\ BootGoto(where, bhosts \ bad)

\* systemd returns from a server when it is up, from an agent at once.
NotBack == (bhosts \cap Servers) \ up

-----------------------------------------------------------------------------
\* The snapshot play, serial: 1.  bhosts at "snapshots" are the servers to
\* come; while one is being restarted the others are those after it.

Later(n) == {m \in Servers \ bfailed : Order[m] > Order[n]}

SnapshotsNext(n) ==
    IF Later(n) = {} THEN BootGoto("registries", Nodes \ bfailed)
    ELSE BootGoto("snapshots", Later(n))

WriteSnapshots ==
    /\ bpc = "snapshots"
    /\ \E n \in First(bhosts) :
         WriteFile("snapshots", {n}, "snapshots handler", SnapshotsNext(n))
    /\ restUnchanged
    /\ UNCHANGED <<up, ready, loaded, bplay, disk, old, read>>

RestartForSnapshots ==
    /\ bpc = "snapshots handler"
    /\ RunHandler("snapshots", "snapshots restarted")
    /\ restUnchanged
    /\ UNCHANGED <<bplay, disk, old, written>>

\* A server that failed is its whole batch: the run ends.
SnapshotsRestarted ==
    /\ bpc = "snapshots restarted"
    /\ bfailed' = bfailed \cup NotBack
    /\ \/ /\ bfailed' # bfailed \/ bhosts = {}
          /\ EndBootstrap("failed")
       \/ /\ bfailed' = bfailed
          /\ \E n \in bhosts : SnapshotsNext(n)
    /\ restUnchanged
    /\ UNCHANGED <<up, ready, loaded, bplay, disk, old, written, read,
                   dropped>>

-----------------------------------------------------------------------------
\* The registry play, on all nodes at once.

Finish(bad) == EndBootstrap(IF bad = {} THEN "ok" ELSE "failed")

WriteRegistries ==
    /\ bpc = "registries"
    /\ WriteFile("registries", bhosts, "registries handler", Finish(bfailed'))
    /\ restUnchanged
    /\ UNCHANGED <<up, ready, loaded, bplay, disk, old, read>>

RestartForRegistries ==
    /\ bpc = "registries handler"
    /\ RunHandler("registries", "registries restarted")
    /\ restUnchanged
    /\ UNCHANGED <<bplay, disk, old, written>>

RegistriesRestarted ==
    /\ bpc = "registries restarted"
    /\ bfailed' = bfailed \cup NotBack
    /\ Finish(bfailed')
    /\ restUnchanged
    /\ UNCHANGED <<up, ready, loaded, bplay, disk, old, written, read,
                   dropped>>

Boot == \/ StartBootstrap \/ BootConfigure \/ BootInstall \/ BootInstalled
        \/ Finalize \/ WriteSnapshots \/ RestartForSnapshots
        \/ SnapshotsRestarted \/ WriteRegistries \/ RestartForRegistries
        \/ RegistriesRestarted

-----------------------------------------------------------------------------
\* The rolling restart and the cluster, meanwhile: a process that stops has
\* read nothing, one that starts reads every file.

Reads == {p \in written : p[2] \in up' \ up}

Roll ==
    /\ Next
    /\ runs' + bootstraps <= MaxPlaybooks
    /\ read' = {p \in read : p[2] \in up'} \cup Reads
    /\ dropped' = dropped \ Reads
    /\ UNCHANGED <<bpc, bplay, bhosts, bfailed, boutcome, bootstraps, old,
                   written>>

BootNext == Boot \/ Roll

BootSpec == BootInit /\ [][BootNext]_allVars

-----------------------------------------------------------------------------
\* Properties.

\* A bootstrap that reports success has put config.yaml on every node and every
\* file on every node it is for, and a k3s that runs has read the files, whichever
\* node failed or was restarted meanwhile; unless an earlier run wrote the file and
\* was cut off before the handler.  No later run of bootstrap.yml repairs that.  Of
\* the binary it promises nothing: a failed download keeps the old one.
SuccessLoads ==
    boutcome = "ok" =>
      /\ disk = Nodes
      /\ \A f \in Files : \A n \in Holders(f) :
           /\ <<f, n>> \in written
           /\ n \in up => <<f, n>> \in read \cup dropped

\* Two servers are never down together in a first bootstrap: an upgrade and the
\* snapshot play take them one at a time.  Only the registry play restarts them
\* together.
ServersInTurn ==
    crashes = 0 /\ runs = 0 /\ bootstraps = 1 =>
      \A m, n \in Servers \ up :
        m = n \/ {<<"registries", m>>, <<"registries", n>>} \subseteq written

-----------------------------------------------------------------------------
\* The inductive invariant.

\* A task has no host that has failed.
Alive == bhosts \cap bfailed = {}

Handler(f) == IF f = "snapshots" THEN "snapshots handler" ELSE "registries handler"

\* The restarts that the handler of the current play has still to make.
Pending == {p \in Files \X bhosts : bpc = Handler(p[1])}

\* What is on the disk of a node that serves has been read, waits for the
\* handler, or has lost it.
ReadInv ==
    /\ Pending \subseteq written
    /\ \A f \in Files : \A n \in up :
         <<f, n>> \in written => <<f, n>> \in read \cup dropped \cup Pending

\* Group i has the configuration, or has failed.
Configured(i) == Groups[i] \subseteq bfailed \cup disk

InstallInv ==
    bpc # "idle" =>
      /\ \A i \in Plays : i < bplay => Configured(i)
      /\ bpc # "config" => Configured(bplay)
      /\ bpc \notin {"config", "install", "installed"} => bplay = Len(Groups)

HasFile(f, n) == <<f, n>> \in written

\* The snapshot play has come to the servers in their order; after the two
\* plays every node that has not failed has its files.
FilesInv ==
    /\ bpc = "snapshots" =>
         /\ bhosts \subseteq Servers
         /\ \A m \in Servers \ bfailed : m \in bhosts \/ HasFile("snapshots", m)
    /\ bpc \in {"snapshots handler", "snapshots restarted"} =>
         /\ \A n \in bhosts : \A m \in Servers \ bfailed :
              m \in Later(n) \/ HasFile("snapshots", m)
         /\ \A m, n \in bhosts : m = n
    /\ bpc \in {"registries", "registries handler", "registries restarted"} =>
         \A m \in Servers \ bfailed : HasFile("snapshots", m)
    /\ bpc = "registries" => bhosts = Nodes \ bfailed
    /\ bpc \in {"registries handler", "registries restarted"} =>
         \A n \in Nodes \ bfailed : HasFile("registries", n)
    /\ boutcome = "ok" =>
         /\ bpc = "idle" /\ disk = Nodes
         /\ \A f \in Files : \A n \in Holders(f) : HasFile(f, n)

\* Where the servers are in a first bootstrap, if every server has an install
\* play of its own.
ServersApart == \A i \in Plays : \A s \in Groups[i] \cap Servers : Groups[i] = {s}

TurnInv ==
    /\ runs = 0 => pc = "idle"
    /\ crashes = 0 /\ runs = 0 /\ bootstraps = 0 => bpc = "idle" /\ up = Nodes
    /\ crashes = 0 /\ runs = 0 /\ bootstraps = 1 =>
         /\ bpc \in {"config", "install", "finalize", "snapshots", "snapshots handler",
                     "registries", "registries handler"} => Servers \subseteq up
         /\ bpc = "installed" => Servers \ up \subseteq bhosts /\ bhosts \subseteq Groups[bplay]
         /\ bpc = "snapshots restarted" => Servers \ up \subseteq bhosts
         /\ bpc = "registries restarted" =>
              \A n \in Servers \ up : HasFile("registries", n)

BootInv ==
    /\ TypeOK /\ BootTypeOK /\ CordonInv /\ ConfigInv
    /\ Alive /\ ReadInv /\ InstallInv /\ FilesInv
=============================================================================
