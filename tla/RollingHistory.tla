--------------------------- MODULE RollingHistory ---------------------------
(***************************************************************************)
(* RollingRestart with a history variable: has a stale Ready condition     *)
(* misled a wait of the playbook, or the operator?  With it, a property    *)
(* can say that nothing else breaks what the playbook promises.            *)
(***************************************************************************)
EXTENDS RollingRestart

VARIABLE misled  \* has a "True" been believed of a node that was down?

historyVars == <<vars, misled>>

\* A condition that is stale ends the wait for the current host, or passes the
\* pre-flight check.
Stale == ready \ up
WaitMisled == AwaitReady /\ pc' \notin {"ready", "idle"} /\ host \in Stale
CheckMisled == StartRun /\ Stale # {}

HistoryInit == Init /\ misled = FALSE

HistoryNext == Next /\ misled' = (misled \/ WaitMisled \/ CheckMisled)

HistorySpec == HistoryInit /\ [][HistoryNext]_historyVars

HistoryFairSpec == HistorySpec /\ Fairness

-----------------------------------------------------------------------------
\* Until a node fails by itself, or a stale condition is believed.
Undeceived == crashes = 0 /\ ~misled

\* A rolling restart, with reboots or without, never takes the etcd quorum away
\* before a stale condition has misled it: the waits after a restart hold the next
\* one back, and a run that was aborted with a server down is not followed by one
\* that stops another.
QuorumUnlessMisled == Undeceived => Quorum

\* Nor does it leave the order of a rolling maintenance: a node goes only while
\* every other node serves, through failed tasks, aborts and reruns.
OutByPlaybook == IF Undeceived THEN Nodes \ up ELSE {}
Maintenance == INSTANCE RollingMaintenance WITH out <- OutByPlaybook
RollsUnlessMisled == Maintenance!Spec

\* The tasks at which every node is up, in a run that nothing has misled.
Calm == {"config servers", "config agents", "next", "drain", "restart",
         "etcd", "uncordon"}

\* The inductive invariant behind both: only the current host may be down, and
\* only while it is waited for or after its wait has failed.
OneDownInv ==
    Undeceived => /\ pc \in Calm => up = Nodes
                  /\ Nodes \ up \subseteq {host}
=============================================================================
