----------------------------- MODULE K3sCluster -----------------------------
(***************************************************************************)
(* The k3s cluster as the playbooks of ansible/playbooks see it: servers   *)
(* that vote in the embedded etcd, agents, and the node objects that       *)
(* kubectl shows.  Kubernetes and k3s are not code of this repository;     *)
(* they are modelled from what the playbooks ask of them (external).       *)
(*                                                                         *)
(* kubectl is always run on the first host of the group k3s_servers, the   *)
(* primary (delegate_to: "{{ groups['k3s_servers'][0] }}").                *)
(***************************************************************************)
EXTENDS Naturals, FiniteSets

CONSTANTS
    Servers,     \* inventory groups k3s_servers, k3s_ha_servers, k3s_oci_servers
    Agents,      \* inventory groups k3s_agents, k3s_vm_agents
    Order,       \* the place of a node in the inventory
    Primary,     \* groups['k3s_servers'][0]
    MaxCrashes,  \* bound: nodes that fail on their own
    StaleReady   \* may kubectl still show Ready=True for a node that is down?

Nodes == Servers \cup Agents

ASSUME ClusterAssumption ==
    /\ IsFiniteSet(Servers) /\ IsFiniteSet(Agents)
    /\ Servers \cap Agents = {}
    /\ Primary \in Servers
    /\ Order \in [Nodes -> Nat]
    /\ \A s \in Servers, a \in Agents : Order[s] < Order[a]
    /\ MaxCrashes \in Nat
    /\ StaleReady \in BOOLEAN

\* Ansible takes the hosts of a play in the order of the inventory, and the
\* servers' play comes before the agents'.
First(S) == {n \in S : \A m \in S : Order[n] <= Order[m]}

VARIABLES
    up,        \* the nodes whose k3s process runs; such a server votes in etcd
    ready,     \* the nodes whose Ready condition reads "True"
    cordoned,  \* the unschedulable nodes
    crashes    \* node failures so far

clusterVars == <<up, ready, cordoned, crashes>>

Quorum == 2 * Cardinality(Servers \cap up) > Cardinality(Servers)

\* kubectl on the primary answers.
ApiUp == Primary \in up /\ Quorum

ClusterTypeOK ==
    /\ up \in SUBSET Nodes
    /\ ready \in SUBSET Nodes
    /\ cordoned \in SUBSET Nodes

ClusterInit ==
    /\ up = Nodes
    /\ ready = Nodes
    /\ cordoned = {}
    /\ crashes = 0

\* The k3s process of n stops.  Its last heartbeat keeps the Ready condition
\* at "True" until the node controller's grace period is over; without
\* StaleReady the grace period is over before anybody looks.
StopK3s(n) ==
    /\ up' = up \ {n}
    /\ ready' = IF StaleReady THEN ready ELSE ready \ {n}

\* The k3s process of n is back.
StartK3s(n) == n \notin up /\ up' = up \cup {n}

\* The control plane notices that a node has gone, or is back.
NoticeDown(n) ==
    /\ Quorum
    /\ n \in ready \ up
    /\ ready' = ready \ {n}
    /\ UNCHANGED <<up, cordoned, crashes>>

Heartbeat(n) ==
    /\ Quorum
    /\ n \in up \ ready
    /\ ready' = ready \cup {n}
    /\ UNCHANGED <<up, cordoned, crashes>>
=============================================================================
