---------------------------- MODULE MCBootstrap ----------------------------
(***************************************************************************)
(* Model-checking instance of Bootstrap: two servers and an agent of the   *)
(* inventory, each server in a group of its own.                           *)
(***************************************************************************)
EXTENDS Bootstrap

CONSTANTS dpi2, dpi3, tpi1, tpi3

\* The order of ansible/inventory/hosts.yml.
InventoryOrder ==
    [n \in Nodes |-> CASE n = dpi2 -> 0 [] n = dpi3 -> 1
                       [] n = tpi1 -> 2 [] n = tpi3 -> 3]

\* k3s_servers, k3s_ha_servers, k3s_agents.
InventoryGroups == <<{dpi2}, {dpi3}, Agents>>
=============================================================================
