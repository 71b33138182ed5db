-------------------------- MODULE MCRollingRestart --------------------------
(***************************************************************************)
(* Model-checking instances of RollingRestart: the three servers of the    *)
(* inventory and an agent.                                                 *)
(***************************************************************************)
EXTENDS RollingHistory

CONSTANTS dpi2, dpi3, oracle1, tpi1, tpi3

\* The order of ansible/inventory/hosts.yml.
InventoryOrder ==
    [n \in Nodes |-> CASE n = dpi2 -> 0 [] n = dpi3 -> 1
                       [] n = oracle1 -> 2 [] n = tpi1 -> 3
                       [] n = tpi3 -> 4]
=============================================================================
